---- MODULE Spec2Model ----
(***************************************************************************)
(* rustysunset: the transition engine (src/src/transition.rs), the         *)
(* persisted state (src/src/state.rs), the phase resolver                  *)
(* (src/src/scheduler.rs) and the daemon loop (src/src/main.rs).           *)
(*                                                                         *)
(* Time is counted in seconds on a grid of Step seconds.  Local time has a *)
(* fixed UTC offset (no daylight-saving gap), so a local timestamp is the  *)
(* number of seconds since local midnight of date 0.                       *)
(*                                                                         *)
(* An f64 is modelled by the exact rational <<n, d>> it stands for; the    *)
(* inputs are kept on a grid where the f64 arithmetic of the analytic      *)
(* curves is exact.  Where the f64 result of the code differs from the     *)
(* rational by a rounding error, the sign of that error is carried as a    *)
(* third component r in {-1, 0, 1} (see F64EndResidue).                    *)
(***************************************************************************)
EXTENDS Integers, Sequences, FiniteSets, TLC

VARIABLES
    cfg,        \* the configuration snapshot (immutable in a run) and the build
    now,        \* the clock, local seconds: SystemTime::now, Local::now and
                \* Instant::now read the same clock (no clock jumps)
    eng,        \* the Transition engine's fields
    panicked,   \* the process aborted on an arithmetic overflow check
    daemon      \* run_daemon's locals and the state file

vars == <<cfg, now, eng, panicked, daemon>>

\* Option<T>: None, or Some(v)
None == <<>>
Some(v) == <<v>>

-----------------------------------------------------------------------------
(* Bounds and grids *)

\* How many grid steps the clock may advance in the engine specification.
MaxAdvance == 2
\* The largest elapsed argument of align_with_schedule, in grid steps.
MaxElapsedSteps == 4
\* The dates (local calendar days) the scheduler specification covers: 0..MaxDate.
MaxDate == 1

Step == 15 * 60
DaySecs == 24 * 3600

Min(a, b) == IF a < b THEN a ELSE b
Max(a, b) == IF a > b THEN a ELSE b
Abs(x) == IF x < 0 THEN -x ELSE x

-----------------------------------------------------------------------------
(* Exact rationals <<n, d>>, d > 0, in lowest terms *)

RECURSIVE Gcd(_, _)
Gcd(a, b) == IF b = 0 THEN a ELSE Gcd(b, a % b)

QNorm(n, d) ==
    LET g == Gcd(Abs(n), d)
    IN  <<(IF n < 0 THEN -(Abs(n) \div g) ELSE n \div g), d \div g>>

QInt(k) == <<k, 1>>
QAdd(p, q) == QNorm(p[1] * q[2] + q[1] * p[2], p[2] * q[2])
QNeg(p) == <<-p[1], p[2]>>
QSub(p, q) == QAdd(p, QNeg(q))
QMul(p, q) == QNorm(p[1] * q[1], p[2] * q[2])
QDiv(p, q) ==
    IF q[1] > 0 THEN QNorm(p[1] * q[2], p[2] * q[1])
    ELSE QNorm(-(p[1] * q[2]), p[2] * (-q[1]))
QLt(p, q) == p[1] * q[2] < q[1] * p[2]
QLe(p, q) == p[1] * q[2] <= q[1] * p[2]
QEq(p, q) == p[1] * q[2] = q[1] * p[2]
\* f64::mul_add(a, b, c) = a * b + c
MulAdd(a, b, c) == QAdd(QMul(a, b), c)
QClamp01(p) == IF QLt(p, QInt(0)) THEN QInt(0) ELSE IF QLt(QInt(1), p) THEN QInt(1) ELSE p
\* an f64 result: the rational and the sign of its rounding error
Exact(q) == <<q[1], q[2], 0>>

-----------------------------------------------------------------------------
(* Easing identifiers.  The string is kept in the pieces the parser looks  *)
(* at: the text up to and including a "(" (or the whole text when there is *)
(* none), the comma-separated pieces inside, and whether a ")" ends it.    *)

Name(s) == [head |-> s, parts |-> <<>>, close |-> FALSE]
Call(h, ps, c) == [head |-> h, parts |-> ps, close |-> c]

BezierOvershoot == Call("cubic_bezier(", <<"0.25", "1.5", "0.75", "1.5">>, TRUE)
BezierBack == Call("cubic_bezier(", <<"0.25", "0.6", "0.75", "1.5">>, TRUE)
BezierInvalid == Call("cubic_bezier(", <<"invalid">>, TRUE)
BezierThreeArgs == Call("cubic_bezier(", <<"0.25", "0.6", "0.75">>, TRUE)
BezierUnclosed == Call("cubic_bezier(", <<"0.25", "0.6", "0.75", "1.5">>, FALSE)
BezierNaN == Call("cubic_bezier(", <<"0.25", "nan", "0.75", "1.0">>, TRUE)

\* The f64 that is not a number, as the fraction 0/0.
NaN == <<0, 0>>
IsNaN(q) == q[2] = 0

\* str::parse::<f64> of a trimmed piece
ParseF64(s) ==
    CASE s = "0.0" -> Some(QInt(0))
      [] s = "1.0" -> Some(QInt(1))
      [] s = "0.25" -> Some(<<1, 4>>)
      [] s = "0.75" -> Some(<<3, 4>>)
      [] s = "0.6" -> Some(<<3, 5>>)
      [] s = "1.5" -> Some(<<3, 2>>)
      [] s = "nan" -> Some(NaN)
      [] OTHER -> None

parse_cubic_bezier(e) ==
    IF e.head # "cubic_bezier(" \/ ~e.close THEN None
    ELSE IF Len(e.parts) # 4 THEN None
    ELSE IF \E i \in 1..4 : ParseF64(e.parts[i]) = None THEN None
    ELSE Some([i \in 1..4 |-> ParseF64(e.parts[i])[1]])

\* |dx| < 1e-12: a rational whose numerator and denominator fit the model's
\* integers is that small only when it is 0.
NearZero(q) == q[1] = 0

RECURSIVE Newton(_, _, _, _, _, _)
Newton(k, t, x, ax, bx, cx) ==
    IF k = 0 THEN t
    ELSE LET x_t == QMul(MulAdd(MulAdd(ax, t, bx), t, cx), t)
             dx == MulAdd(MulAdd(QMul(QInt(3), ax), t, QMul(QInt(2), bx)), t, cx)
         IN  IF NearZero(dx) THEN t
             ELSE Newton(k - 1, QSub(t, QDiv(QSub(x_t, x), dx)), x, ax, bx, cx)

\* The rounding error of ay.mul_add(t, by).mul_add(t, cy) * t at t = 1.0 when a
\* control point is no binary fraction: for y1 = 0.6, y2 = 1.5 the f64
\* coefficients are cy = 1.7999999999999998, by = 0.9000000000000002,
\* ay = -1.7000000000000002 and the sum is 0.9999999999999999.
F64EndResidue(y1, y2, t) ==
    IF t = QInt(1) /\ y1 = <<3, 5>> /\ y2 = <<3, 2>> THEN -1 ELSE 0

\* the polynomial for control points that are numbers
eval_cubic_bezier_finite(x, x1, y1, x2, y2) ==
    LET cx == QMul(QInt(3), x1)
        bx == MulAdd(QInt(3), QSub(x2, x1), QNeg(cx))
        ax == QSub(QSub(QInt(1), cx), bx)
        cy == QMul(QInt(3), y1)
        by == MulAdd(QInt(3), QSub(y2, y1), QNeg(cy))
        ay == QSub(QSub(QInt(1), cy), by)
        t == QClamp01(Newton(8, x, x, ax, bx, cx))
        y == QMul(MulAdd(MulAdd(ay, t, by), t, cy), t)
    IN  <<y[1], y[2], F64EndResidue(y1, y2, t)>>

\* eval_cubic_bezier.  A control point that is NaN makes a coefficient NaN,
\* and with it every sum and product down to the result: the test
\* dx.abs() < 1e-12 is false for NaN, and NaN.clamp(0.0, 1.0) is NaN.
eval_cubic_bezier(x, x1, y1, x2, y2) ==
    IF IsNaN(x1) \/ IsNaN(y1) \/ IsNaN(x2) \/ IsNaN(y2) THEN <<0, 0, 0>>
    ELSE eval_cubic_bezier_finite(x, x1, y1, x2, y2)

\* (1 - cos(pi t)) / 2 on the quarter grid; the two irrational values are
\* given to five decimal places (0.14645, 0.85355).
Sine(t) ==
    CASE t = <<1, 4>> -> <<2929, 20000>>
      [] t = <<3, 4>> -> <<17071, 20000>>
      [] OTHER -> t

\* A variant of apply_easing that treats an identifier it does not know as
\* ease_in.
apply_easing_UnknownIsEaseIn(t, easing) ==
    IF easing = Name("linear") THEN Exact(t)
    ELSE IF easing = Name("ease_in") THEN Exact(QMul(t, t))
    ELSE IF easing = Name("ease_out") THEN Exact(QMul(t, QSub(QInt(2), t)))
    ELSE IF easing = Name("ease_in_out") THEN
        IF QLt(t, <<1, 2>>) THEN Exact(QMul(QMul(QInt(2), t), t))
        ELSE Exact(MulAdd(MulAdd(QInt(2), QNeg(t), QInt(4)), t, QInt(-1)))
    ELSE IF easing = Name("sine") THEN Exact(Sine(t))
    ELSE IF easing = Name("smooth") THEN
        Exact(QMul(QMul(t, t), MulAdd(QInt(2), QNeg(t), QInt(3))))
    ELSE IF easing = Name("smoother") THEN
        Exact(QMul(QMul(QMul(t, t), t),
                   MulAdd(t, MulAdd(QInt(6), t, QInt(-15)), QInt(10))))
    ELSE LET p == parse_cubic_bezier(easing)
         IN  IF p = None THEN Exact(QMul(t, t))
             ELSE eval_cubic_bezier(t, p[1][1], p[1][2], p[1][3], p[1][4])

\* transition.rs: apply_easing
apply_easing(t, easing) ==
    IF easing = Name("linear") THEN Exact(t)
    ELSE IF easing = Name("ease_in") THEN Exact(QMul(t, t))
    ELSE IF easing = Name("ease_out") THEN Exact(QMul(t, QSub(QInt(2), t)))
    ELSE IF easing = Name("ease_in_out") THEN
        IF QLt(t, <<1, 2>>) THEN Exact(QMul(QMul(QInt(2), t), t))
        ELSE Exact(MulAdd(MulAdd(QInt(2), QNeg(t), QInt(4)), t, QInt(-1)))
    ELSE IF easing = Name("sine") THEN Exact(Sine(t))
    ELSE IF easing = Name("smooth") THEN
        Exact(QMul(QMul(t, t), MulAdd(QInt(2), QNeg(t), QInt(3))))
    ELSE IF easing = Name("smoother") THEN
        Exact(QMul(QMul(QMul(t, t), t),
                   MulAdd(t, MulAdd(QInt(6), t, QInt(-15)), QInt(10))))
    ELSE LET p == parse_cubic_bezier(easing)
         IN  IF p = None THEN Exact(t)
             ELSE eval_cubic_bezier(t, p[1][1], p[1][2], p[1][3], p[1][4])

\* state.rs: its own apply_easing
state_apply_easing(t, easing) ==
    IF easing = Name("ease_in") THEN Exact(QMul(t, t))
    ELSE IF easing = Name("ease_out") THEN Exact(QMul(t, QSub(QInt(2), t)))
    ELSE IF easing = Name("ease_in_out") THEN
        IF QLt(t, <<1, 2>>) THEN Exact(QMul(QMul(QInt(2), t), t))
        ELSE Exact(QAdd(QInt(-1), QMul(QSub(QInt(4), QMul(QInt(2), t)), t)))
    ELSE Exact(t)

-----------------------------------------------------------------------------
(* Integer casts of the interpolation (u16, i16, f64 -> i16) *)

I16Min == -(2 ^ 15)
I16Max == 2 ^ 15 - 1
U16Mod == 2 ^ 16

\* u16 as i16
AsI16(u) == IF u > I16Max THEN u - U16Mod ELSE u
\* i16 as u16
AsU16(i) == i % U16Mod
InI16(x) == I16Min <= x /\ x <= I16Max
\* the wrapped result of an i16 addition or subtraction
WrapI16(x) == ((x - I16Min) % U16Mod) + I16Min

\* (temp_range as f64 * eased_progress) as i16: the product truncated toward
\* zero and saturated.  e = <<n, d, r>>; when the product n * range / d is a
\* whole number and the f64 factor lies just below (r * range towards zero) it,
\* the truncation loses one.
TruncMulFinite(range, e) ==
    LET x == range * e[1]
        q == IF x >= 0 THEN x \div e[2] ELSE -((-x) \div e[2])
        whole == Abs(x) % e[2] = 0
        dev == range * e[3]
        v == IF whole /\ q > 0 /\ dev < 0 THEN q - 1
             ELSE IF whole /\ q < 0 /\ dev > 0 THEN q + 1
             ELSE q
    IN  Max(I16Min, Min(I16Max, v))

\* NaN as i16 is 0.
TruncMul(range, e) == IF e[2] = 0 THEN 0 ELSE TruncMulFinite(range, e)

\* let temp_range = target as i16 - start as i16;
\* let temp_delta = (temp_range as f64 * eased_progress) as i16;
\* (start as i16 + temp_delta) as u16
\* overflow: one of the two i16 operations left the i16 range (a panic when
\* the build checks overflow, a wrap-around otherwise).
Interpolate(start, target, eased) ==
    LET diff == AsI16(target) - AsI16(start)
        temp_range == WrapI16(diff)
        temp_delta == TruncMul(temp_range, eased)
        sum == AsI16(start) + temp_delta
    IN  [temp |-> AsU16(WrapI16(sum)),
         overflow |-> ~InI16(diff) \/ ~InI16(sum)]

-----------------------------------------------------------------------------
(* Transition engine (transition.rs) *)

DurationSecs(c) == 60 * c.duration_minutes

new_with_temp(initial_temp, t) ==
    [current_temperature |-> initial_temp,
     target_temperature |-> initial_temp,
     transition_start_temp |-> initial_temp,
     transition_start_timestamp |-> t,
     phase_start_time |-> t,
     in_transition |-> FALSE]

\* A variant of Rebase that keeps the two time references of the engine.
RebaseKeepingClock(e, target_temp, t) ==
    IF ~e.in_transition \/ e.target_temperature # target_temp
    THEN [e EXCEPT !.transition_start_temp = e.current_temperature,
                   !.target_temperature = target_temp,
                   !.in_transition = TRUE]
    ELSE e

\* update's rebase: lines 54-60
Rebase(e, target_temp, t) ==
    IF ~e.in_transition \/ e.target_temperature # target_temp
    THEN [e EXCEPT !.transition_start_temp = e.current_temperature,
                   !.target_temperature = target_temp,
                   !.phase_start_time = t,
                   !.transition_start_timestamp = t,
                   !.in_transition = TRUE]
    ELSE e

\* A variant of UpdateBase that interpolates from the temperature of the last
\* call instead of the start of the transition.
UpdateBaseAccumulating(r) == r.current_temperature

\* The value update interpolates from.
UpdateBase(r) == r.transition_start_temp

\* Transition::update at time t; the result is the engine and whether an
\* overflow happened on the way.
update(e, c, target_temp, t) ==
    LET duration == DurationSecs(c) IN
    IF duration = 0 THEN
        [eng |-> [e EXCEPT !.current_temperature = target_temp,
                           !.target_temperature = target_temp,
                           !.transition_start_temp = target_temp,
                           !.transition_start_timestamp = t,
                           !.in_transition = FALSE],
         overflow |-> FALSE]
    ELSE IF e.current_temperature = target_temp THEN
        [eng |-> [e EXCEPT !.target_temperature = target_temp,
                           !.transition_start_temp = target_temp,
                           !.in_transition = FALSE],
         overflow |-> FALSE]
    ELSE
        LET r == Rebase(e, target_temp, t)
            elapsed == t - r.phase_start_time
        IN  IF elapsed >= duration THEN
                [eng |-> [r EXCEPT !.current_temperature = r.target_temperature,
                                   !.in_transition = FALSE],
                 overflow |-> FALSE]
            ELSE
                LET progress == QNorm(elapsed, duration)
                    eased_progress == apply_easing(progress, c.easing)
                    i == Interpolate(UpdateBase(r), r.target_temperature, eased_progress)
                IN  [eng |-> [r EXCEPT !.current_temperature = i.temp],
                     overflow |-> i.overflow]

\* A variant of ClampElapsed that restarts a transition that has overrun.
ClampElapsedRestarting(elapsed, duration) == IF elapsed > duration THEN 0 ELSE elapsed

\* let clamped_elapsed = if elapsed > duration { duration } else { elapsed };
ClampElapsed(elapsed, duration) == IF elapsed > duration THEN duration ELSE elapsed

\* A variant of align_with_schedule that keeps the start temperature of the
\* transition the engine was in.
align_with_schedule_KeepingStart(e, c, start_temp, target_temp, elapsed, t) ==
    LET duration == DurationSecs(c) IN
    IF duration = 0 THEN
        [eng |-> [e EXCEPT !.current_temperature = target_temp,
                           !.target_temperature = target_temp,
                           !.transition_start_timestamp = t,
                           !.phase_start_time = t,
                           !.in_transition = FALSE],
         overflow |-> FALSE]
    ELSE
        LET clamped_elapsed == ClampElapsed(elapsed, duration)
            progress == QNorm(clamped_elapsed, duration)
            eased_progress == apply_easing(progress, c.easing)
            i == Interpolate(start_temp, target_temp, eased_progress)
        IN  [eng |-> [e EXCEPT !.current_temperature = i.temp,
                               !.target_temperature = target_temp,
                               !.phase_start_time = t - clamped_elapsed,
                               !.transition_start_timestamp = Max(0, t - clamped_elapsed),
                               !.in_transition = clamped_elapsed < duration],
             overflow |-> i.overflow]

\* A variant of align_with_schedule that restarts the phase clock at the call.
align_with_schedule_PhaseStartNow(e, c, start_temp, target_temp, elapsed, t) ==
    LET duration == DurationSecs(c) IN
    IF duration = 0 THEN
        [eng |-> [e EXCEPT !.current_temperature = target_temp,
                           !.target_temperature = target_temp,
                           !.transition_start_temp = start_temp,
                           !.transition_start_timestamp = t,
                           !.phase_start_time = t,
                           !.in_transition = FALSE],
         overflow |-> FALSE]
    ELSE
        LET clamped_elapsed == ClampElapsed(elapsed, duration)
            progress == QNorm(clamped_elapsed, duration)
            eased_progress == apply_easing(progress, c.easing)
            i == Interpolate(start_temp, target_temp, eased_progress)
        IN  [eng |-> [current_temperature |-> i.temp,
                      transition_start_temp |-> start_temp,
                      target_temperature |-> target_temp,
                      phase_start_time |-> t,
                      transition_start_timestamp |-> Max(0, t - clamped_elapsed),
                      in_transition |-> clamped_elapsed < duration],
             overflow |-> i.overflow]

\* Transition::align_with_schedule at time t.  Instant::checked_sub does not
\* fail on Linux (the monotonic clock is a signed timespec).
align_with_schedule(e, c, start_temp, target_temp, elapsed, t) ==
    LET duration == DurationSecs(c) IN
    IF duration = 0 THEN
        [eng |-> [e EXCEPT !.current_temperature = target_temp,
                           !.target_temperature = target_temp,
                           !.transition_start_temp = start_temp,
                           !.transition_start_timestamp = t,
                           !.phase_start_time = t,
                           !.in_transition = FALSE],
         overflow |-> FALSE]
    ELSE
        LET clamped_elapsed == ClampElapsed(elapsed, duration)
            progress == QNorm(clamped_elapsed, duration)
            eased_progress == apply_easing(progress, c.easing)
            i == Interpolate(start_temp, target_temp, eased_progress)
        IN  [eng |-> [current_temperature |-> i.temp,
                      transition_start_temp |-> start_temp,
                      target_temperature |-> target_temp,
                      phase_start_time |-> t - clamped_elapsed,
                      transition_start_timestamp |-> Max(0, t - clamped_elapsed),
                      in_transition |-> clamped_elapsed < duration],
             overflow |-> i.overflow]

\* A variant of Transition_progress that reports no progress while idle.
Transition_progress_IdleIsZero(e, c, t) ==
    IF ~e.in_transition THEN QInt(0)
    ELSE LET elapsed == t - e.phase_start_time
             duration == DurationSecs(c)
         IN  IF duration = 0 THEN QInt(1)
             ELSE IF elapsed >= duration THEN QInt(1)
             ELSE QNorm(elapsed, duration)

\* A variant of Transition_progress that reports the eased progress.
Transition_progress_Eased(e, c, t) ==
    IF ~e.in_transition THEN QInt(1)
    ELSE LET elapsed == t - e.phase_start_time
             duration == DurationSecs(c)
         IN  IF duration = 0 THEN QInt(1)
             ELSE IF elapsed >= duration THEN QInt(1)
             ELSE LET y == apply_easing(QNorm(elapsed, duration), c.easing)
                  IN  <<y[1], y[2]>>

\* Transition::progress at time t, as a rational
Transition_progress(e, c, t) ==
    IF ~e.in_transition THEN QInt(1)
    ELSE LET elapsed == t - e.phase_start_time
             duration == DurationSecs(c)
         IN  IF duration = 0 THEN QInt(1)
             ELSE IF elapsed >= duration THEN QInt(1)
             ELSE QNorm(elapsed, duration)

-----------------------------------------------------------------------------
(* Persisted state (state.rs) *)

State(start_temp, ts, elapsed, target_temp) ==
    [transition_start_temp |-> start_temp,
     transition_start_timestamp |-> ts,
     elapsed_seconds |-> elapsed,
     target_temp |-> target_temp]

\* u64 values.  The values at the top of the range are kept as negative
\* numbers, -m standing for 2^64 - m, so that a sum is the wrapped u64 sum.
U64Top(m) == -m
\* a + b, wrapped
U64Add(a, b) == a + b
\* whether a + b leaves the u64 range (a panic when the build checks
\* overflow, the wrapped sum otherwise)
U64AddOverflows(a, b) == (a < 0 /\ b < 0) \/ ((a < 0 \/ b < 0) /\ a + b >= 0)
\* a.saturating_sub(b)
U64SaturatingSub(a, b) ==
    IF a >= 0 THEN (IF b < 0 THEN 0 ELSE Max(0, a - b))
    ELSE (IF b >= 0 \/ b <= a THEN a - b ELSE 0)

\* State::age_seconds at time t: now.saturating_sub(timestamp + elapsed).
\* The fields of a record read from the state file are TOML integers (at most
\* 2^63 - 1), whose sum fits; a record built in memory has any u64 fields.
age_seconds(st, t) ==
    U64SaturatingSub(t, U64Add(st.transition_start_timestamp, st.elapsed_seconds))

\* whether the sum inside age_seconds overflows
age_seconds_overflows(st) ==
    U64AddOverflows(st.transition_start_timestamp, st.elapsed_seconds)

\* A path is the sequence of its (one-byte) characters.
Path(chars) == chars
StartsWithTilde(path) == Len(path) >= 1 /\ path[1] = "~"

\* PathBuf::join: an absolute argument replaces the base
PathJoin(base, rel) ==
    IF rel # <<>> /\ rel[1] = "/" THEN rel ELSE base \o <<"/">> \o rel

\* expand_path; home is dirs::home_dir().  fault: the slice &path[2..] of a
\* path shorter than two bytes is out of range, which panics.
expand_path(path, home) ==
    IF StartsWithTilde(path) THEN
        IF home = None THEN [fault |-> FALSE, path |-> None]
        ELSE IF Len(path) < 2 THEN [fault |-> TRUE, path |-> None]
        ELSE [fault |-> FALSE,
              path |-> Some(PathJoin(home[1], SubSeq(path, 3, Len(path))))]
    ELSE [fault |-> FALSE, path |-> Some(path)]

\* The content of a file: text that is no TOML, or a TOML document, kept as
\* the set of its <<key, integer>> lines (the empty set is the empty file).
\* An integer beyond the 64-bit signed range of TOML is written like a u64 at
\* the top of its range, as a negative number.
Garbage == [kind |-> "garbage", table |-> {}]
Document(table) == [kind |-> "toml", table |-> table]
StateKeys ==
    {"transition_start_temp", "transition_start_timestamp", "elapsed_seconds",
     "target_temp"}

\* toml::from_str::<State>: a syntax error, an integer outside the i64 range,
\* a missing field or a temperature that is no u16 is an error (here None);
\* unknown keys are ignored.
toml_from_str(content) ==
    LET t == content.table
        Has(k) == \E x \in t : x[1] = k
        Val(k) == (CHOOSE x \in t : x[1] = k)[2]
    IN  IF content.kind # "toml" THEN None
        ELSE IF \E x \in t : x[2] < 0 THEN None
        ELSE IF \E k \in StateKeys : ~Has(k) THEN None
        ELSE IF Val("transition_start_temp") >= U16Mod \/ Val("target_temp") >= U16Mod
             THEN None
        ELSE Some(State(Val("transition_start_temp"), Val("transition_start_timestamp"),
                        Val("elapsed_seconds"), Val("target_temp")))

\* toml::to_string(&State): the possible results.  A u64 above the i64 range
\* is either refused (None) or written as a number no TOML reader accepts,
\* depending on the version of the toml crate.
toml_to_string(st) ==
    LET doc == Document({<<k, st[k]>> : k \in StateKeys})
    IN  IF st.transition_start_timestamp < 0 \/ st.elapsed_seconds < 0
        THEN {None, Some(doc)}
        ELSE {Some(doc)}

\* fs::read_to_string(..).ok(): files maps the paths that can hold a file to
\* None (no readable file) or the content
fs_read_to_string(files, p) == IF p \in DOMAIN files THEN files[p] ELSE None

\* State::load
State_load(path, home, files) ==
    LET x == expand_path(path, home)
    IN  IF x.fault THEN [fault |-> TRUE, value |-> None]
        ELSE IF x.path = None THEN [fault |-> FALSE, value |-> None]
        ELSE LET content == fs_read_to_string(files, x.path[1])
             IN  IF content = None THEN [fault |-> FALSE, value |-> None]
                 ELSE [fault |-> FALSE, value |-> toml_from_str(content[1])]

\* State::save: the possible outcomes.  writable: whether create_dir_all and
\* fs::write succeed.  A serialization error is replaced by the empty text.
State_save(st, path, home, files, writable) ==
    LET x == expand_path(path, home)
    IN  IF x.fault THEN {[fault |-> TRUE, result |-> "Err", files |-> files]}
        ELSE IF x.path = None \/ ~writable \/ x.path[1] \notin DOMAIN files
        THEN {[fault |-> FALSE, result |-> "Err", files |-> files]}
        ELSE {[fault |-> FALSE, result |-> "Ok",
               files |-> [files EXCEPT ![x.path[1]] =
                             Some(IF s = None THEN Document({}) ELSE s[1])]] :
                 s \in toml_to_string(st)}

\* calculate_temperature_from_state; overflow as in Interpolate
calculate_temperature_from_state(st, transition_duration_seconds, easing) ==
    IF st.elapsed_seconds >= transition_duration_seconds THEN
        [temp |-> st.target_temp, overflow |-> FALSE]
    ELSE
        LET progress == QNorm(st.elapsed_seconds, transition_duration_seconds)
            eased_progress == state_apply_easing(progress, easing)
        IN  Interpolate(st.transition_start_temp, st.target_temp, eased_progress)

-----------------------------------------------------------------------------
(* Phase resolver (scheduler.rs) *)

\* A configured "HH:MM" string is kept as the pair of its two numbers.
HM(h, m) == <<h, m>>

\* parse_time: NaiveTime::parse_from_str(value, "%H:%M"), as seconds of the day
parse_time(value) ==
    IF value[1] <= 23 /\ value[2] <= 59
    THEN Some(value[1] * 3600 + value[2] * 60)
    ELSE None

\* sunrise::Coordinates::new(lat, lon), in whole degrees: None outside
\* [-90, 90] x [-180, 180]
Coordinates_new(lat, lon) ==
    IF lat < -90 \/ lat > 90 \/ lon < -180 \/ lon > 180 THEN None
    ELSE Some(<<lat, lon>>)

\* Schedule::new: the first failing step decides the error
Schedule_new(c) ==
    IF parse_time(c.schedule_wakeup) = None THEN [ok |-> FALSE, error |-> "wakeup"]
    ELSE IF parse_time(c.schedule_bedtime) = None THEN [ok |-> FALSE, error |-> "bedtime"]
    ELSE IF Coordinates_new(c.location_latitude, c.location_longitude) = None
         THEN [ok |-> FALSE, error |-> "coordinates"]
    ELSE [ok |-> TRUE, error |-> ""]

wakeup_time(c) == parse_time(c.schedule_wakeup)[1]
bedtime_time(c) == parse_time(c.schedule_bedtime)[1]

\* DateTime::date_naive and DateTime::time of a local timestamp
date_naive(t) == t \div DaySecs
time_of(t) == t % DaySecs

\* NaiveTime + Duration and NaiveTime - Duration wrap around midnight
NaiveTimeAdd(time, secs) == (time + secs) % DaySecs
NaiveTimeSub(time, secs) == (time - secs) % DaySecs

\* Duration::minutes(duration_minutes), in seconds
DurationOf(c) == 60 * c.duration_minutes

\* sunrise_sunset_local: the solar events of the timestamp's local date, as the
\* external solar calculation gives them (c.sun[date] = <<sunrise, sunset>>,
\* seconds after that date's local midnight).
sunrise_sunset_local(c, t) ==
    LET date == date_naive(t)
    IN  <<date * DaySecs + c.sun[date][1], date * DaySecs + c.sun[date][2]>>

\* local_datetime: the local time zone has no gap or fold
local_datetime(date, time) == Some(date * DaySecs + time)

\* A variant of auto_phase in which the instant of sunset still belongs to the
\* phase before it.
auto_phase_SunsetExclusive(c, t) ==
    LET ss == sunrise_sunset_local(c, t)
        sunrise == ss[1]
        sunset == ss[2]
        duration == DurationOf(c)
    IN  IF t >= sunset + duration THEN "Night"
        ELSE IF t > sunset THEN "TransitioningToNight"
        ELSE IF t >= sunrise + duration THEN "Day"
        ELSE IF t >= sunrise THEN "TransitioningToDay"
        ELSE "Night"

auto_phase(c, t) ==
    LET ss == sunrise_sunset_local(c, t)
        sunrise == ss[1]
        sunset == ss[2]
        duration == DurationOf(c)
    IN  IF t >= sunset + duration THEN "Night"
        ELSE IF t >= sunset THEN "TransitioningToNight"
        ELSE IF t >= sunrise + duration THEN "Day"
        ELSE IF t >= sunrise THEN "TransitioningToDay"
        ELSE "Night"

\* A variant of FixedTransitionStart that forgets the duration.
FixedTransitionStartAtBedtime(c) == bedtime_time(c)

\* let transition_start = self.bedtime_time - transition_duration;
FixedTransitionStart(c) == NaiveTimeSub(bedtime_time(c), DurationOf(c))
\* let transition_end = self.wakeup_time + transition_duration;
FixedTransitionEnd(c) == NaiveTimeAdd(wakeup_time(c), DurationOf(c))

fixed_phase(c, t) ==
    LET now_time == time_of(t)
        transition_start == FixedTransitionStart(c)
        transition_end == FixedTransitionEnd(c)
    IN  IF now_time >= wakeup_time(c) /\ now_time < transition_end
        THEN "TransitioningToDay"
        ELSE IF now_time >= transition_end /\ now_time < transition_start
        THEN "Day"
        ELSE IF now_time >= transition_start /\ now_time < bedtime_time(c)
        THEN "TransitioningToNight"
        ELSE "Night"

current_phase_at(c, t) ==
    IF c.mode = "Auto" THEN auto_phase(c, t) ELSE fixed_phase(c, t)

\* the phase's target: target_temperature, and run_daemon lines 303-308
PhaseTarget(c, phase) ==
    IF phase \in {"Day", "TransitioningToDay"} THEN c.temperature_day
    ELSE c.temperature_night

target_temperature(c, t) == PhaseTarget(c, current_phase_at(c, t))

TransitionWindow(start, start_temp, target_temp) ==
    [start |-> start, start_temp |-> start_temp, target_temp |-> target_temp]

auto_transition_window(c, t, duration) ==
    LET ss == sunrise_sunset_local(c, t)
        sunrise == ss[1]
        sunset == ss[2]
    IN  IF t >= sunset /\ t < sunset + duration
        THEN Some(TransitionWindow(sunset, c.temperature_day, c.temperature_night))
        ELSE IF t >= sunrise /\ t < sunrise + duration
        THEN Some(TransitionWindow(sunrise, c.temperature_night, c.temperature_day))
        ELSE None

\* A variant of fixed_transition_window whose evening window starts at bedtime.
fixed_transition_window_FromBedtime(c, t, duration) ==
    LET date == date_naive(t)
        wakeup_dt == local_datetime(date, wakeup_time(c))[1]
        bedtime_dt == local_datetime(date, bedtime_time(c))[1]
        wakeup_end == wakeup_dt + duration
    IN  IF t >= wakeup_dt /\ t < wakeup_end
        THEN Some(TransitionWindow(wakeup_dt, c.temperature_night, c.temperature_day))
        ELSE IF t >= bedtime_dt /\ t < bedtime_dt + duration
        THEN Some(TransitionWindow(bedtime_dt, c.temperature_day, c.temperature_night))
        ELSE None

fixed_transition_window(c, t, duration) ==
    LET date == date_naive(t)
        wakeup_dt == local_datetime(date, wakeup_time(c))[1]
        bedtime_dt == local_datetime(date, bedtime_time(c))[1]
        wakeup_end == wakeup_dt + duration
        bedtime_start == bedtime_dt - duration
    IN  IF t >= wakeup_dt /\ t < wakeup_end
        THEN Some(TransitionWindow(wakeup_dt, c.temperature_night, c.temperature_day))
        ELSE IF t >= bedtime_start /\ t < bedtime_dt
        THEN Some(TransitionWindow(bedtime_start, c.temperature_day, c.temperature_night))
        ELSE None

transition_window_at(c, t) ==
    LET duration == DurationOf(c)
    IN  IF duration = 0 THEN None
        ELSE IF c.mode = "Auto" THEN auto_transition_window(c, t, duration)
        ELSE fixed_transition_window(c, t, duration)

auto_next_transition_start(c, t) ==
    LET ss == sunrise_sunset_local(c, t)
        sunrise == ss[1]
        sunset == ss[2]
        duration == DurationOf(c)
        phase == auto_phase(c, t)
    IN  IF phase = "Day" THEN Some(sunset)
        ELSE IF phase = "Night" /\ t >= sunset + duration THEN
            LET tomorrow == date_naive(t) + 1
                tomorrow_noon == local_datetime(tomorrow, 12 * 3600)[1]
            IN  Some(sunrise_sunset_local(c, tomorrow_noon)[1])
        ELSE IF phase = "Night" THEN Some(sunrise)
        ELSE None

\* A variant of fixed_next_transition_start whose last Night arm also takes
\* the transitioning phases.
fixed_next_transition_start_NightArmCatchesAll(c, t) ==
    LET date == date_naive(t)
        duration == DurationOf(c)
        phase == fixed_phase(c, t)
    IN  IF phase = "Day" THEN
            Some(local_datetime(date, bedtime_time(c))[1] - duration)
        ELSE IF phase = "Night" /\ time_of(t) >= bedtime_time(c) THEN
            local_datetime(date + 1, wakeup_time(c))
        ELSE local_datetime(date, wakeup_time(c))

fixed_next_transition_start(c, t) ==
    LET date == date_naive(t)
        duration == DurationOf(c)
        phase == fixed_phase(c, t)
    IN  IF phase = "Day" THEN
            Some(local_datetime(date, bedtime_time(c))[1] - duration)
        ELSE IF phase = "Night" /\ time_of(t) >= bedtime_time(c) THEN
            local_datetime(date + 1, wakeup_time(c))
        ELSE IF phase = "Night" THEN
            local_datetime(date, wakeup_time(c))
        ELSE None

next_transition_start(c, t) ==
    IF c.mode = "Auto" THEN auto_next_transition_start(c, t)
    ELSE fixed_next_transition_start(c, t)

-----------------------------------------------------------------------------
(* Daemon start and loop (main.rs: run_daemon) *)

\* should_set_temperature
\* A variant of should_set_temperature that never skips an update.
should_set_temperature_Always(optimize_updates, last_sent, current) == TRUE

should_set_temperature(optimize_updates, last_sent, current) ==
    IF ~optimize_updates THEN TRUE
    ELSE IF last_sent # None THEN last_sent[1] # current
    ELSE TRUE

\* A variant of StateIsFresh that keeps a state of exactly the maximal age.
StateIsFreshInclusive(c, saved_state, t) ==
    LET max_age == c.duration_minutes * 60 * 2
    IN  age_seconds(saved_state, t) <= max_age

\* The staleness test of the saved state: lines 230-231
StateIsFresh(c, saved_state, t) ==
    LET max_age == c.duration_minutes * 60 * 2
    IN  age_seconds(saved_state, t) < max_age

\* let initial_temp = ...: lines 226-245.  file is State::load's result.
InitialTemp(c, file, t) ==
    LET target_temp == target_temperature(c, t)
    IN  IF file = None THEN
            [temp |-> target_temp, resumed |-> FALSE, overflow |-> FALSE]
        ELSE IF StateIsFresh(c, file[1], t) THEN
            LET r == calculate_temperature_from_state(
                         file[1], c.duration_minutes * 60, c.easing)
            IN  [temp |-> r.temp, resumed |-> TRUE, overflow |-> r.overflow]
        ELSE [temp |-> target_temp, resumed |-> FALSE, overflow |-> FALSE]

\* A variant of TickEngine that steers to the night temperature whenever no
\* window is active.
TickEngine_TowardsNight(e, c, t) ==
    LET window == transition_window_at(c, t)
    IN  IF window # None THEN
            align_with_schedule(e, c, window[1].start_temp, window[1].target_temp,
                                Max(0, t - window[1].start), t)
        ELSE update(e, c, c.temperature_night, t)

\* The engine call of one tick: lines 301-316
TickEngine(e, c, t) ==
    LET phase == current_phase_at(c, t)
        target_temp == PhaseTarget(c, phase)
        window == transition_window_at(c, t)
    IN  IF window # None THEN
            align_with_schedule(e, c, window[1].start_temp, window[1].target_temp,
                                Max(0, t - window[1].start), t)
        ELSE update(e, c, target_temp, t)

\* let sleep_duration = ...: lines 349-357
SleepDuration(c, t) ==
    LET phase == current_phase_at(c, t)
        next == next_transition_start(c, t)
    IN  IF phase \in {"Day", "Night"} THEN
            IF next # None /\ next[1] - t >= 0 THEN Min(next[1] - t, 3600)
            ELSE c.tick_interval_seconds
        ELSE c.tick_interval_seconds

\* A variant of ShutdownState that records no elapsed time.
ShutdownState_NoElapsed(e, t) ==
    State(e.transition_start_temp, e.transition_start_timestamp,
          0, e.target_temperature)

\* the State written at shutdown: lines 278-290
ShutdownState(e, t) ==
    State(e.transition_start_temp, e.transition_start_timestamp,
          Max(0, t - e.transition_start_timestamp), e.target_temperature)

-----------------------------------------------------------------------------
(* Configurations *)

Hour == 60 * 60
Dates == 0..(MaxDate + 1)

\* Config::default(), with the tick interval set to the grid step
DefaultConfig ==
    [mode |-> "Auto",
     location_latitude |-> 0,
     location_longitude |-> 0,
     schedule_wakeup |-> HM(7, 0),
     schedule_bedtime |-> HM(22, 0),
     duration_minutes |-> 60,
     easing |-> Name("linear"),
     temperature_day |-> 6500,
     temperature_night |-> 1500,
     tick_interval_seconds |-> Step,
     optimize_updates |-> TRUE,
     status_update_interval |-> 1,
     dry_run |-> FALSE,
     overflow_checks |-> FALSE,
     sun |-> [d \in Dates |-> <<6 * Hour, 18 * Hour>>]]

Temps == {1500, 6500, 40000}
Durations == {0, 30, 60}
AnalyticEasings ==
    {Name("linear"), Name("ease_in"), Name("ease_out"), Name("ease_in_out"),
     Name("sine"), Name("smooth"), Name("smoother")}
BezierEasings == {BezierOvershoot, BezierBack}
FallbackEasings == {Name("not_a_curve"), BezierInvalid, BezierThreeArgs, BezierUnclosed}

\* A Bezier curve is evaluated where the Newton iteration is exact: at
\* progress 0, 1/2 and 1, that is with a duration of at most two grid steps.
EasingFits(easing, d) == easing \in BezierEasings => d <= 30

-----------------------------------------------------------------------------
(* Specification of the engine: any sequence of update and align_with_schedule
   calls, with the clock advancing between them *)

T0 == 12 * Hour

\* The daemon's part of the state while no daemon runs: its position, the
\* state file and the control file, the note of which branch of lines 229-242
\* ran, the two atomic flags, last_set_temperature and the sleep deadline;
\* tick_count and the status file; and a record of what the run has done: the
\* apply-temperature action of the last tick (None when none was issued), the
\* content read from the control file (the local of lines 261-273, None
\* outside them), and the numbers of State::load and State::save calls.
DaemonOff ==
    [pc |-> "off", state_file |-> None, control |-> None, resumed |-> FALSE,
     shutdown |-> FALSE, paused |-> FALSE, last_set_temperature |-> None,
     deadline |-> 0, tick_count |-> 0, status |-> None, apply |-> None,
     content |-> None, loads |-> 0, saves |-> 0]

EngineEasings ==
    {Name("linear"), Name("ease_in"), Name("smooth"), Name("not_a_curve"),
     BezierOvershoot, BezierBack}

\* the (start_temp, target_temp) arguments of align_with_schedule
AlignPairs == {<<6500, 1500>>, <<1500, 6500>>, <<1500, 40000>>}

EngineConfigs ==
    {[DefaultConfig EXCEPT !.duration_minutes = x[1], !.easing = x[2]] :
        x \in {y \in Durations \X EngineEasings : EasingFits(y[2], y[1])}}

Init ==
    /\ cfg \in EngineConfigs
    /\ now = T0
    /\ eng \in {new_with_temp(i, T0) : i \in Temps}
    /\ panicked = FALSE
    /\ daemon = DaemonOff

\* The engine after a call: a checked overflow aborts the process.
Apply(r) ==
    IF r.overflow /\ cfg.overflow_checks
    THEN panicked' = TRUE /\ UNCHANGED eng
    ELSE eng' = r.eng /\ UNCHANGED panicked

Update(target_temp) ==
    /\ ~panicked
    /\ Apply(update(eng, cfg, target_temp, now))
    /\ UNCHANGED <<cfg, now, daemon>>

Align(start_temp, target_temp, elapsed) ==
    /\ ~panicked
    /\ Apply(align_with_schedule(eng, cfg, start_temp, target_temp, elapsed, now))
    /\ UNCHANGED <<cfg, now, daemon>>

Advance ==
    /\ ~panicked
    /\ now < T0 + MaxAdvance * Step
    /\ now' = now + Step
    /\ UNCHANGED <<cfg, eng, panicked, daemon>>

Next ==
    \/ \E t \in Temps : Update(t)
    \/ \E p \in AlignPairs, k \in 0..MaxElapsedSteps : Align(p[1], p[2], k * Step)
    \/ Advance

Spec == Init /\ [][Next]_vars

-----------------------------------------------------------------------------
(* Claims about the engine and the persisted state, under Spec *)

InFlight(e) == e.in_transition /\ e.current_temperature # e.transition_start_temp

\* C1: whenever in_transition is false, current_temperature, target_temperature
\* and transition_start_temp are equal.
C1_IdleFieldsEqual ==
    ~eng.in_transition =>
        /\ eng.current_temperature = eng.target_temperature
        /\ eng.target_temperature = eng.transition_start_temp

\* C2: whenever in_transition is true, the current temperature lies between
\* transition_start_temp and target_temperature (inclusive).
C2_CurrentBetweenStartAndTarget ==
    eng.in_transition =>
        /\ Min(eng.transition_start_temp, eng.target_temperature) <= eng.current_temperature
        /\ eng.current_temperature <= Max(eng.transition_start_temp, eng.target_temperature)

\* C3: for a positive duration, calculate_temperature_from_state on the record
\* (start, elapsed, target) gives the temperature align_with_schedule(start,
\* target, elapsed) leaves in the engine, for every easing identifier.
C3_ResumeMatchesAlign ==
    DurationSecs(cfg) > 0 =>
        \A p \in AlignPairs, k \in 0..MaxElapsedSteps :
            calculate_temperature_from_state(
                State(p[1], 0, k * Step, p[2]), DurationSecs(cfg), cfg.easing).temp
            = align_with_schedule(eng, cfg, p[1], p[2], k * Step, now).eng.current_temperature

\* C4: with elapsed >= duration the interpolation gives exactly the target:
\* calculate_temperature_from_state returns target_temp, align_with_schedule
\* leaves current = target, and update leaves current = target and the engine
\* idle once the time since the phase start is >= duration.
C4_CompletedIsTarget ==
    /\ \A p \in AlignPairs, k \in 0..MaxElapsedSteps :
        k * Step >= DurationSecs(cfg) =>
            /\ calculate_temperature_from_state(
                   State(p[1], 0, k * Step, p[2]), DurationSecs(cfg), cfg.easing).temp = p[2]
            /\ align_with_schedule(eng, cfg, p[1], p[2], k * Step, now)
                   .eng.current_temperature = p[2]
    /\ \A t \in Temps :
        (eng.in_transition /\ eng.target_temperature = t
            /\ now - eng.phase_start_time >= DurationSecs(cfg)) =>
            LET r == update(eng, cfg, t, now).eng
            IN  r.current_temperature = t /\ ~r.in_transition

\* C9: update called twice in a row with the same target and no time passing
\* leaves the same current temperature after the second call as after the first.
C9_UpdateTwiceStable ==
    \A t \in Temps :
        LET r1 == update(eng, cfg, t, now).eng
            r2 == update(r1, cfg, t, now).eng
        IN  r2.current_temperature = r1.current_temperature

\* a state in which update moves the temperature of a transition in flight
C9_Witness ==
    \E t \in Temps :
        LET r1 == update(eng, cfg, t, now).eng
        IN  /\ InFlight(eng) /\ InFlight(r1)
            /\ r1.current_temperature # eng.current_temperature
            /\ update(r1, cfg, t, now).eng = r1

-----------------------------------------------------------------------------
(* Specification of the phase resolver: a configuration, and the timestamp
   moving over the grid of the dates 0..MaxDate *)

\* <<sunrise, sunset>> of a date, seconds after local midnight: an ordinary
\* day, a day shorter than the transition, a long day
SunTimes ==
    {<<6 * Hour, 18 * Hour>>, <<12 * Hour - Step, 12 * Hour + Step>>,
     <<Step, 23 * Hour>>}

\* the same events every date, or a day that lengthens from date to date
SunTables ==
    {[d \in Dates |-> st] : st \in SunTimes}
        \cup {[d \in Dates |-> <<6 * Hour - d * Step, 18 * Hour + d * Step>>]}

Wakeups == {HM(7, 0), HM(23, 30)}
Bedtimes == {HM(22, 0), HM(0, 15), HM(7, 30)}

SchedConfigs ==
    {[DefaultConfig EXCEPT !.mode = "Fixed", !.schedule_wakeup = x[1],
                           !.schedule_bedtime = x[2], !.duration_minutes = x[3]] :
        x \in Wakeups \X Bedtimes \X Durations}
    \cup {[DefaultConfig EXCEPT !.mode = "Auto", !.sun = x[1], !.duration_minutes = x[2]] :
        x \in SunTables \X Durations}

InitSched ==
    /\ cfg \in SchedConfigs
    /\ now = 0
    /\ eng = new_with_temp(target_temperature(cfg, 0), 0)
    /\ panicked = FALSE
    /\ daemon = DaemonOff

SchedTick ==
    /\ now + Step < (MaxDate + 1) * DaySecs
    /\ now' = now + Step
    /\ UNCHANGED <<cfg, eng, panicked, daemon>>

NextSched == SchedTick

SpecSched == InitSched /\ [][NextSched]_vars

AllPhases == {"Day", "TransitioningToNight", "Night", "TransitioningToDay"}
Transitioning == {"TransitioningToNight", "TransitioningToDay"}

\* x lies in the half-open interval of length len that starts at a
InFrom(x, a, len) == a <= x /\ x < a + len
\* the same on the 24-hour clock
InClockFrom(x, a, len) == ((x - a) % DaySecs) < len

Sunrise == sunrise_sunset_local(cfg, now)[1]
Sunset == sunrise_sunset_local(cfg, now)[2]

\* C5 as stated: in Auto mode TransitioningToNight iff t in [sunset, sunset+d),
\* Day iff t in [sunrise+d, sunset), TransitioningToDay iff t in
\* [sunrise, sunrise+d), Night otherwise; t = sunset gives TransitioningToNight,
\* t = sunset+d gives Night, t = sunrise gives TransitioningToDay.
C5_AutoPhaseIntervals ==
    cfg.mode = "Auto" =>
        LET d == DurationOf(cfg)
            ph == current_phase_at(cfg, now)
            toNight == InFrom(now, Sunset, d)
            day == Sunrise + d <= now /\ now < Sunset
            toDay == InFrom(now, Sunrise, d)
        IN  /\ ph = "TransitioningToNight" <=> toNight
            /\ ph = "Day" <=> day
            /\ ph = "TransitioningToDay" <=> toDay
            /\ ph = "Night" <=> ~(toNight \/ day \/ toDay)
            /\ now = Sunset => ph = "TransitioningToNight"
            /\ now = Sunset + d => ph = "Night"
            /\ now = Sunrise => ph = "TransitioningToDay"

\* C5 amended: TransitioningToDay iff t in [sunrise, sunrise+d) and t < sunset
\* (the sunset window wins where the two overlap); the boundary instants
\* t = sunset and t = sunrise start their transition only when d > 0 (and, for
\* sunrise, sunrise < sunset); t = sunset+d gives Night.
C5_AutoPhaseIntervalsSunsetFirst ==
    cfg.mode = "Auto" =>
        LET d == DurationOf(cfg)
            ph == current_phase_at(cfg, now)
            toNight == InFrom(now, Sunset, d)
            day == Sunrise + d <= now /\ now < Sunset
            toDay == InFrom(now, Sunrise, d) /\ now < Sunset
        IN  /\ ph = "TransitioningToNight" <=> toNight
            /\ ph = "Day" <=> day
            /\ ph = "TransitioningToDay" <=> toDay
            /\ ph = "Night" <=> ~(toNight \/ day \/ toDay)
            /\ (now = Sunset /\ d > 0) => ph = "TransitioningToNight"
            /\ now = Sunset + d => ph = "Night"
            /\ (now = Sunrise /\ d > 0 /\ Sunrise < Sunset) => ph = "TransitioningToDay"

\* the instant of sunset on a day shorter than the transition: both windows
\* contain it, and the phase is TransitioningToNight
C5_Witness ==
    /\ cfg.mode = "Auto"
    /\ now = Sunset
    /\ InFrom(now, Sunrise, DurationOf(cfg))
    /\ current_phase_at(cfg, now) = "TransitioningToNight"

\* the two fixed windows [wake, wake+d) and [bedtime-d, bedtime) do not meet on
\* the 24-hour clock, and the day between them is not empty
FixedWindowsApart(c) ==
    LET d == DurationOf(c)
        dayLen == (bedtime_time(c) - d - (wakeup_time(c) + d)) % DaySecs
    IN  d > 0 /\ dayLen > 0 /\ d + dayLen + d < DaySecs

\* C6 (for windows that do not overlap): in Fixed mode the time of day x is
\* TransitioningToDay iff x in [wake, wake+d), TransitioningToNight iff x in
\* [bedtime-d, bedtime), Day iff x in [wake+d, bedtime-d), Night otherwise, the
\* intervals taken on the 24-hour clock; x = wake gives TransitioningToDay,
\* x = wake+d Day, x = bedtime-d TransitioningToNight, x = bedtime Night.
C6_FixedPhaseIntervals ==
    (cfg.mode = "Fixed" /\ FixedWindowsApart(cfg)) =>
        LET d == DurationOf(cfg)
            x == time_of(now)
            wake == wakeup_time(cfg)
            bed == bedtime_time(cfg)
            ph == current_phase_at(cfg, now)
            toDay == InClockFrom(x, wake, d)
            toNight == InClockFrom(x, bed - d, d)
            day == InClockFrom(x, wake + d, (bed - d - (wake + d)) % DaySecs)
        IN  /\ ph = "TransitioningToDay" <=> toDay
            /\ ph = "TransitioningToNight" <=> toNight
            /\ ph = "Day" <=> day
            /\ ph = "Night" <=> ~(toDay \/ toNight \/ day)
            /\ x = wake => ph = "TransitioningToDay"
            /\ x = (wake + d) % DaySecs => ph = "Day"
            /\ x = (bed - d) % DaySecs => ph = "TransitioningToNight"
            /\ x = bed => ph = "Night"

\* C7: transition_window_at returns a window only if the duration is positive
\* and the phase is a transitioning one; in Day and Night, and with a duration
\* of zero, it returns none.
C7_WindowOnlyWhileTransitioning ==
    LET w == transition_window_at(cfg, now)
        ph == current_phase_at(cfg, now)
    IN  /\ w # None => (DurationOf(cfg) > 0 /\ ph \in Transitioning)
        /\ ph \in {"Day", "Night"} => w = None
        /\ DurationOf(cfg) = 0 => w = None

\* the phases returned over the 24 hours that start at t0
PhasesIn(c, t0) == {current_phase_at(c, t0 + k * Step) : k \in 0..((DaySecs \div Step) - 1)}

WindowsFit(c, t) ==
    LET d == DurationOf(c) IN
    IF c.mode = "Fixed"
    THEN wakeup_time(c) + d < bedtime_time(c) - d
    ELSE LET sr == c.sun[date_naive(t)][1]
             ss == c.sun[date_naive(t)][2]
         IN  /\ 0 <= sr /\ sr + d < ss /\ ss < DaySecs
             /\ (0 < sr \/ ss + d < DaySecs)

-----------------------------------------------------------------------------
(* Specification of the daemon: run_daemon from its start to its exit, with
   the clock, the signal handler and the pause/resume commands as its
   environment *)

\* the daemon runs for at most this many grid steps
MaxRunSteps == 3

\* the daemon starts half an hour before the evening window of the default
\* fixed schedule with a duration of 60 minutes
DaemonT0 == 20 * Hour + 2 * Step

DaemonConfigs ==
    {[DefaultConfig EXCEPT !.mode = "Fixed", !.duration_minutes = x[1], !.easing = x[2]] :
        x \in Durations \X {Name("linear"), Name("ease_in")}}
    \cup {[DefaultConfig EXCEPT !.mode = "Fixed", !.duration_minutes = 0,
                                !.schedule_bedtime = HM(20, 0)]}
    \cup {[DefaultConfig EXCEPT !.mode = "Fixed", !.optimize_updates = FALSE],
          [DefaultConfig EXCEPT !.mode = "Fixed", !.dry_run = TRUE]}

\* What State::load may find: no file, or a state saved age seconds ago after
\* elapsed seconds of a transition from day to night.
SavedAges(c) ==
    {a \in {0, 2 * DurationSecs(c) - Step, 2 * DurationSecs(c), 2 * DurationSecs(c) + Step} :
        a >= 0}

SavedStates(c, t) ==
    {State(c.temperature_day, t - a - el, el, c.temperature_night) :
        a \in SavedAges(c), el \in {0, Step}}

InitDaemon ==
    /\ cfg \in DaemonConfigs
    /\ now = DaemonT0
    /\ eng = new_with_temp(cfg.temperature_day, DaemonT0)
    /\ panicked = FALSE
    /\ \E file \in {None} \cup {Some(st) : st \in SavedStates(cfg, DaemonT0)} :
           daemon = [DaemonOff EXCEPT !.pc = "start", !.state_file = file]

\* lines 226-258: the initial temperature and the engine built on it
DaemonStart ==
    /\ daemon.pc = "start"
    /\ LET i == InitialTemp(cfg, daemon.state_file, now)
       IN  IF i.overflow /\ cfg.overflow_checks
           THEN /\ panicked' = TRUE
                /\ daemon' = [daemon EXCEPT !.pc = "exited", !.loads = @ + 1]
                /\ UNCHANGED eng
           ELSE /\ eng' = new_with_temp(i.temp, now)
                /\ daemon' = [daemon EXCEPT !.pc = "loop", !.resumed = i.resumed,
                                            !.loads = @ + 1]
                /\ UNCHANGED panicked
    /\ UNCHANGED <<cfg, now>>

\* the flag after the lines of the control file, in order: lines 262-272
RECURSIVE ApplyControl(_, _)
ApplyControl(lines, p) ==
    IF lines = <<>> THEN p
    ELSE ApplyControl(Tail(lines),
                      IF Head(lines) = "pause" THEN TRUE
                      ELSE IF Head(lines) = "resume" THEN FALSE
                      ELSE p)

\* lines 261-272: the control file is read and its commands are applied
ReadControl ==
    /\ daemon.pc = "loop"
    /\ daemon' = IF daemon.control = None
                 THEN [daemon EXCEPT !.pc = "decide"]
                 ELSE [daemon EXCEPT !.pc = "truncate",
                                     !.content = daemon.control,
                                     !.paused = ApplyControl(daemon.control[1], daemon.paused)]
    /\ UNCHANGED <<cfg, now, eng, panicked>>

\* line 273: the control file is emptied
TruncateControl ==
    /\ daemon.pc = "truncate"
    /\ daemon' = [daemon EXCEPT !.pc = "decide", !.control = Some(<<>>),
                                !.content = None]
    /\ UNCHANGED <<cfg, now, eng, panicked>>

\* A variant of ShutdownObserved that also leaves the loop when paused.
ShutdownObserved_OrPaused(d) == d.shutdown \/ d.paused

\* line 276: shutdown.load(Ordering::SeqCst)
ShutdownObserved(d) == d.shutdown

\* lines 276-294: the shutdown flag is set; the state is saved and the loop left
DaemonShutdown ==
    /\ daemon.pc = "decide"
    /\ ShutdownObserved(daemon)
    /\ daemon' = [daemon EXCEPT !.pc = "exited",
                                !.state_file = IF cfg.dry_run THEN @
                                               ELSE Some(ShutdownState(eng, now)),
                                !.saves = IF cfg.dry_run THEN @ ELSE @ + 1]
    /\ UNCHANGED <<cfg, now, eng, panicked>>

\* lines 296-299: paused, the iteration ends after a short sleep; the short
\* sleeps add up, so the clock may have moved on by the next iteration
DaemonPaused ==
    /\ daemon.pc = "decide"
    /\ ~daemon.shutdown
    /\ daemon.paused
    /\ daemon' = [daemon EXCEPT !.pc = "loop"]
    /\ \E dt \in {0} \cup (IF now < DaemonT0 + MaxRunSteps * Step THEN {Step} ELSE {}) :
         now' = now + dt
    /\ UNCHANGED <<cfg, eng, panicked>>

\* A variant of TickAllowed that does not look at the paused flag.
TickAllowed_IgnoringPause(d) == ~d.shutdown

\* lines 276 and 296: neither the shutdown nor the paused flag is set
TickAllowed(d) == ~d.shutdown /\ ~d.paused

\* lines 328-336: whether hyprctl::set_temperature is called on this tick
IssuesApply(c, last_sent, temp) ==
    ~c.dry_run /\ should_set_temperature(c.optimize_updates, last_sent, temp)

\* {progress:.2}: the progress in hundredths, to the nearest
Hundredths(q) == (200 * q[1] + q[2]) \div (2 * q[2])

\* lines 341-344: the text of the status file, as its four values
StatusOf(e, c, t) ==
    [temp |-> e.current_temperature, phase |-> current_phase_at(c, t),
     target |-> e.target_temperature,
     progress |-> Hundredths(Transition_progress(e, c, t))]

\* lines 301-359: one tick.  ok is the outcome of hyprctl::set_temperature.
DaemonTick ==
    /\ daemon.pc = "decide"
    /\ TickAllowed(daemon)
    /\ \E r \in {TickEngine(eng, cfg, now)} :
       LET temp == r.eng.current_temperature
           issue == IssuesApply(cfg, daemon.last_set_temperature, temp)
           interval == IF cfg.status_update_interval = 0 THEN 1
                       ELSE cfg.status_update_interval
           write == ~cfg.dry_run /\ daemon.tick_count + 1 >= interval
       IN  IF r.overflow /\ cfg.overflow_checks
           THEN /\ panicked' = TRUE
                /\ daemon' = [daemon EXCEPT !.pc = "exited"]
                /\ UNCHANGED eng
           ELSE /\ eng' = r.eng
                /\ \E ok \in IF issue THEN BOOLEAN ELSE {TRUE} :
                     daemon' =
                       [daemon EXCEPT
                          !.pc = "sleep",
                          !.apply = IF issue THEN Some([temp |-> temp, ok |-> ok])
                                    ELSE None,
                          !.last_set_temperature = IF issue /\ ok THEN Some(temp) ELSE @,
                          !.tick_count = IF cfg.dry_run THEN @
                                         ELSE IF write THEN 0 ELSE @ + 1,
                          !.status = IF write THEN Some(StatusOf(r.eng, cfg, now)) ELSE @,
                          !.deadline = now + SleepDuration(cfg, now)]
                /\ UNCHANGED panicked
    /\ UNCHANGED <<cfg, now>>

\* lines 360-369: the sleep ends at the deadline or when the flag is seen
SleepEnd ==
    /\ daemon.pc = "sleep"
    /\ daemon.shutdown \/ now >= daemon.deadline
    /\ daemon' = [daemon EXCEPT !.pc = "loop"]
    /\ UNCHANGED <<cfg, now, eng, panicked>>

\* lines 360-369: one nap of the sleep loop, taken only after the loop found
\* the flag clear and time remaining; it lasts at most the tick interval
ClockStep ==
    /\ daemon.pc = "sleep"
    /\ ~daemon.shutdown
    /\ now < daemon.deadline
    /\ now < DaemonT0 + MaxRunSteps * Step
    /\ now' = now + Step
    /\ UNCHANGED <<cfg, eng, panicked, daemon>>

\* lines 215-217: the signal handler
Signal ==
    /\ daemon.pc \notin {"start", "exited"}
    /\ ~daemon.shutdown
    /\ daemon' = [daemon EXCEPT !.shutdown = TRUE]
    /\ UNCHANGED <<cfg, now, eng, panicked>>

\* lines 144-157: the pause and resume commands overwrite the control file
Command(word) ==
    /\ daemon.pc \notin {"start", "exited"}
    /\ daemon.control # Some(<<word>>)
    /\ daemon' = [daemon EXCEPT !.control = Some(<<word>>)]
    /\ UNCHANGED <<cfg, now, eng, panicked>>

NextDaemon ==
    \/ DaemonStart
    \/ ReadControl
    \/ TruncateControl
    \/ DaemonShutdown
    \/ DaemonPaused
    \/ DaemonTick
    \/ SleepEnd
    \/ ClockStep
    \/ Signal
    \/ \E word \in {"pause", "resume"} : Command(word)

SpecDaemon == InitDaemon /\ [][NextDaemon]_vars

\* the step of DaemonStart that found a saved state
StartWithSavedState ==
    /\ daemon.pc = "start" /\ daemon'.pc = "loop"
    /\ daemon.state_file # None

\* the initial temperature follows the branch taken
InitialTempByBranch ==
    eng'.current_temperature =
        IF daemon'.resumed
        THEN calculate_temperature_from_state(
                 daemon.state_file[1], DurationSecs(cfg), cfg.easing).temp
        ELSE target_temperature(cfg, now)

\* C8 as stated: the saved state is discarded iff its age exceeds twice the
\* transition duration; then the initial temperature is the resolver's target,
\* otherwise it is calculate_temperature_from_state of the record.
C8_DiscardedIffOlderThanTwice ==
    [][StartWithSavedState =>
        /\ ~daemon'.resumed <=> age_seconds(daemon.state_file[1], now) > 2 * DurationSecs(cfg)
        /\ InitialTempByBranch]_vars

\* C8 amended: the saved state is discarded iff its age is at least twice the
\* transition duration (it is kept only while strictly younger).
C8_DiscardedIffAtLeastTwice ==
    [][StartWithSavedState =>
        /\ ~daemon'.resumed <=> age_seconds(daemon.state_file[1], now) >= 2 * DurationSecs(cfg)
        /\ InitialTempByBranch]_vars

\* the daemon has just started on a saved state of exactly twice the duration,
\* and has discarded it
C8_Witness ==
    /\ daemon.pc = "loop" /\ now = DaemonT0 /\ eng.phase_start_time = now
    /\ daemon.state_file # None
    /\ DurationSecs(cfg) > 0
    /\ age_seconds(daemon.state_file[1], now) = 2 * DurationSecs(cfg)
    /\ ~daemon.resumed
    /\ eng.current_temperature = target_temperature(cfg, now)

-----------------------------------------------------------------------------
(* Further claims about the phase resolver, under SpecSched *)

\* the phase that follows ph on the daily cycle
NextOnCycle(ph) ==
    CASE ph = "Day" -> "TransitioningToNight"
      [] ph = "TransitioningToNight" -> "Night"
      [] ph = "Night" -> "TransitioningToDay"
      [] OTHER -> "Day"

\* both windows of the date of t and the day and the night between them are
\* not empty: in Fixed mode on the 24-hour clock, in Auto mode within the date
CycleComplete(c, t) ==
    IF c.mode = "Fixed" THEN FixedWindowsApart(c)
    ELSE LET sr == c.sun[date_naive(t)][1]
             ss == c.sun[date_naive(t)][2]
             d == DurationOf(c)
         IN  d > 0 /\ 0 < sr /\ sr + d < ss /\ ss + d <= DaySecs

\* C11 (for a complete cycle): as the timestamp advances, current_phase_at
\* changes only from a phase to the next one on the cycle Day ->
\* TransitioningToNight -> Night -> TransitioningToDay -> Day, in both modes and
\* across midnight.
C11_PhasesFollowTheCycle ==
    [][(CycleComplete(cfg, now) /\ CycleComplete(cfg, now')) =>
        current_phase_at(cfg, now')
            \in {current_phase_at(cfg, now), NextOnCycle(current_phase_at(cfg, now))}]_vars

\* the starts a window of the date of t can have, as C12 states them: the raw
\* instants sunrise and sunset, or wakeup and bedtime
RawEvents(c, t) ==
    IF c.mode = "Auto"
    THEN {sunrise_sunset_local(c, t)[1], sunrise_sunset_local(c, t)[2]}
    ELSE {date_naive(t) * DaySecs + wakeup_time(c), date_naive(t) * DaySecs + bedtime_time(c)}

\* the starts the windows of the date of t have: sunrise and sunset, or wakeup
\* and bedtime - duration
WindowStarts(c, t) ==
    IF c.mode = "Auto"
    THEN {sunrise_sunset_local(c, t)[1], sunrise_sunset_local(c, t)[2]}
    ELSE {date_naive(t) * DaySecs + wakeup_time(c),
          date_naive(t) * DaySecs + bedtime_time(c) - DurationOf(c)}

\* a window is returned, it starts at one of starts, and it is active exactly
\* for [start, start + duration): it contains t, and every t within the
\* duration after one of the starts gets a window
WindowsStartAt(starts) ==
    LET w == transition_window_at(cfg, now)
        d == DurationOf(cfg)
    IN  /\ w # None => (w[1].start \in starts /\ InFrom(now, w[1].start, d))
        /\ (d > 0 /\ \E s \in starts : InFrom(now, s, d)) => w # None

\* C12 as stated: every window starts at the raw event instant (sunrise or
\* sunset, wakeup or bedtime) and is active exactly for [start, start+duration).
C12_WindowStartsAtEvent == WindowsStartAt(RawEvents(cfg, now))

\* C12 amended: the window starts at sunrise or sunset in Auto mode and at
\* wakeup or bedtime - duration in Fixed mode, and is active exactly for
\* [start, start + duration).
C12_WindowStartsAtWindowStart == WindowsStartAt(WindowStarts(cfg, now))

\* inside the evening window of a fixed schedule
C12_Witness ==
    /\ cfg.mode = "Fixed"
    /\ transition_window_at(cfg, now) # None
    /\ transition_window_at(cfg, now)[1].start
           = date_naive(now) * DaySecs + bedtime_time(cfg) - DurationOf(cfg)
    /\ bedtime_time(cfg) >= DurationOf(cfg)
    /\ now > transition_window_at(cfg, now)[1].start

\* C13: in Day and Night next_transition_start returns a timestamp strictly
\* later than the given one and at most 24 hours after it.
C13_NextStartWithinADay ==
    current_phase_at(cfg, now) \in {"Day", "Night"} =>
        LET next == next_transition_start(cfg, now)
        IN  /\ next # None
            /\ now < next[1]
            /\ next[1] <= now + DaySecs

\* C14: in TransitioningToNight and TransitioningToDay next_transition_start
\* returns none.
C14_NoNextStartWhileTransitioning ==
    current_phase_at(cfg, now) \in Transitioning => next_transition_start(cfg, now) = None

C14_Witness ==
    /\ cfg.mode = "Fixed"
    /\ current_phase_at(cfg, now) = "TransitioningToDay"
    /\ now > date_naive(now) * DaySecs + wakeup_time(cfg)
    /\ next_transition_start(cfg, now) = None

\* the first of the daily instants at time of day x that is later than t
NextDaily(x, t) ==
    IF date_naive(t) * DaySecs + x > t
    THEN date_naive(t) * DaySecs + x
    ELSE (date_naive(t) + 1) * DaySecs + x

\* the next sunrise: that of the date of t if still upcoming, otherwise that
\* of the next date
NextSunrise(c, t) ==
    IF sunrise_sunset_local(c, t)[1] > t
    THEN sunrise_sunset_local(c, t)[1]
    ELSE sunrise_sunset_local(c, (date_naive(t) + 1) * DaySecs)[1]

\* C15: in Day next_transition_start returns the next sunset (Auto) or the
\* next bedtime (Fixed); in Night the next sunrise (Auto) or wakeup (Fixed),
\* today's if it is still upcoming, otherwise that of the next date.
C15_NextStartIsNextEvent ==
    LET ph == current_phase_at(cfg, now)
        next == next_transition_start(cfg, now)
    IN  /\ (ph = "Day" /\ cfg.mode = "Auto") =>
                next = Some(sunrise_sunset_local(cfg, now)[2])
        /\ (ph = "Day" /\ cfg.mode = "Fixed") =>
                next = Some(NextDaily(bedtime_time(cfg), now))
        /\ (ph = "Night" /\ cfg.mode = "Auto") => next = Some(NextSunrise(cfg, now))
        /\ (ph = "Night" /\ cfg.mode = "Fixed") =>
                next = Some(NextDaily(wakeup_time(cfg), now))

-----------------------------------------------------------------------------
(* Further claims about the engine, under Spec *)

\* the integers nearest to n / d (d > 0): one, or the two neighbours of a half
RoundDiv(n, d) ==
    LET a == Abs(n)
        sign == IF n >= 0 THEN 1 ELSE -1
    IN  {sign * ((2 * a + d) \div (2 * d)), sign * ((2 * a + d - 1) \div (2 * d))}

\* start + round(eased * (target - start)), clamped to the u16 range
RoundedInterpolation(start, target, eased) ==
    {Max(0, Min(U16Mod - 1, start + r)) : r \in RoundDiv((target - start) * eased[1], eased[2])}

\* align_with_schedule(6500, 1500, half of 60 minutes) under an easing curve
HalfwayExample(name) ==
    align_with_schedule(eng, [cfg EXCEPT !.easing = Name(name), !.duration_minutes = 60],
                        6500, 1500, 1800, now).eng.current_temperature

\* C16: every in-flight interpolation of update and align_with_schedule leaves
\* current = start + round(eased_progress * (target - start)), rounded to the
\* nearest integer and clamped to the representable range; 6500 -> 1500 at half
\* the duration gives 4000 (linear), 5250 (ease_in) and 2750 (ease_out).
C16_InterpolationRoundsToNearest ==
    /\ DurationSecs(cfg) > 0 =>
        /\ \A p \in AlignPairs, k \in 0..MaxElapsedSteps :
            k * Step < DurationSecs(cfg) =>
                align_with_schedule(eng, cfg, p[1], p[2], k * Step, now).eng.current_temperature
                \in RoundedInterpolation(p[1], p[2],
                      apply_easing(QNorm(k * Step, DurationSecs(cfg)), cfg.easing))
        /\ \A t \in Temps :
            LET r == update(eng, cfg, t, now).eng
            IN  (eng.current_temperature # t /\ r.in_transition) =>
                    r.current_temperature
                    \in RoundedInterpolation(r.transition_start_temp, t,
                          apply_easing(QNorm(now - r.phase_start_time, DurationSecs(cfg)),
                                       cfg.easing))
    /\ HalfwayExample("linear") = 4000
    /\ HalfwayExample("ease_in") = 5250
    /\ HalfwayExample("ease_out") = 2750

\* x lies in the range spanned by a and b
Spanned(x, a, b) == Min(a, b) <= x /\ x <= Max(a, b)

\* C17: for all u16 start and target temperatures, durations, elapsed times
\* and curves, update, align_with_schedule and calculate_temperature_from_state
\* complete without overflow or wrap-around of the i16 intermediate values, and
\* yield a temperature in the range spanned by start and target.
C17_NoArithmeticFault ==
    /\ ~panicked
    /\ \A p \in AlignPairs, k \in 0..MaxElapsedSteps :
        LET a == align_with_schedule(eng, cfg, p[1], p[2], k * Step, now)
            s == calculate_temperature_from_state(
                     State(p[1], 0, k * Step, p[2]), DurationSecs(cfg), cfg.easing)
        IN  /\ ~a.overflow /\ Spanned(a.eng.current_temperature, p[1], p[2])
            /\ ~s.overflow /\ Spanned(s.temp, p[1], p[2])
    /\ \A t \in Temps :
        LET u == update(eng, cfg, t, now)
        IN  /\ ~u.overflow
            /\ Spanned(u.eng.current_temperature, u.eng.transition_start_temp, t)

\* C18: with a positive duration and a current temperature different from the
\* argument, update(target) on an idle engine or on one whose target differs
\* sets transition_start_temp to the current temperature before the call,
\* target_temperature to the argument, both time references to now, and
\* in_transition; toward the same target it leaves start temperature, target
\* and both time references unchanged.
C18_UpdateRebases ==
    DurationSecs(cfg) > 0 =>
        \A t \in Temps :
            LET r == update(eng, cfg, t, now).eng
            IN  eng.current_temperature # t =>
                    IF ~eng.in_transition \/ eng.target_temperature # t
                    THEN /\ r.transition_start_temp = eng.current_temperature
                         /\ r.target_temperature = t
                         /\ r.phase_start_time = now
                         /\ r.transition_start_timestamp = now
                         /\ r.in_transition
                    ELSE /\ r.transition_start_temp = eng.transition_start_temp
                         /\ r.target_temperature = eng.target_temperature
                         /\ r.phase_start_time = eng.phase_start_time
                         /\ r.transition_start_timestamp = eng.transition_start_timestamp

\* an engine in flight since an earlier instant, given a new target
C18_Witness ==
    /\ DurationSecs(cfg) > 0
    /\ eng.in_transition /\ eng.phase_start_time < now
    /\ eng.current_temperature # eng.transition_start_temp
    /\ \E t \in Temps :
        /\ t # eng.target_temperature /\ t # eng.current_temperature
        /\ update(eng, cfg, t, now).eng.phase_start_time = now

\* C19: with a duration of zero every update(target) sets current, target and
\* start temperature to the argument and leaves the engine idle; progress() is
\* then 1.0.
C19_ZeroDurationSnaps ==
    DurationSecs(cfg) = 0 =>
        \A t \in Temps :
            LET r == update(eng, cfg, t, now).eng
            IN  /\ r.current_temperature = t
                /\ r.target_temperature = t
                /\ r.transition_start_temp = t
                /\ ~r.in_transition
                /\ Transition_progress(r, cfg, now) = QInt(1)

\* a zero-duration engine whose three temperatures differ from the argument
C19_Witness ==
    /\ DurationSecs(cfg) = 0
    /\ eng.transition_start_temp # eng.target_temperature
    /\ \E t \in Temps :
        /\ t # eng.current_temperature /\ t # eng.transition_start_temp
        /\ update(eng, cfg, t, now).eng.current_temperature = t

\* C20: with a positive duration align_with_schedule(start, target, elapsed)
\* clamps elapsed to the duration (the phase start is now - min(elapsed,
\* duration)), stores start and target, and leaves in_transition false exactly
\* when the clamped elapsed equals the duration.
C20_AlignStoresAndClamps ==
    DurationSecs(cfg) > 0 =>
        \A p \in AlignPairs, k \in 0..MaxElapsedSteps :
            LET r == align_with_schedule(eng, cfg, p[1], p[2], k * Step, now).eng
                clamped == Min(k * Step, DurationSecs(cfg))
            IN  /\ r.transition_start_temp = p[1]
                /\ r.target_temperature = p[2]
                /\ r.phase_start_time = now - clamped
                /\ r.in_transition <=> clamped # DurationSecs(cfg)
                /\ k * Step < DurationSecs(cfg) => r.in_transition

\* the engine after an align_with_schedule call whose elapsed was beyond the
\* duration: idle, its phase start one duration back
C20_Witness ==
    /\ DurationSecs(cfg) > 0
    /\ ~eng.in_transition
    /\ eng.phase_start_time = now - DurationSecs(cfg)
    /\ eng.transition_start_temp # eng.target_temperature
    /\ \E p \in AlignPairs, k \in 0..MaxElapsedSteps :
        /\ k * Step > DurationSecs(cfg)
        /\ align_with_schedule(eng, cfg, p[1], p[2], k * Step, now).eng = eng


-----------------------------------------------------------------------------
(* Claims about the engine, continued (under Spec) *)

\* what an observer of the engine reads after a call
Observed(e) ==
    <<e.current_temperature, e.target_temperature, e.transition_start_temp,
      e.in_transition>>

\* C21: two engines with the same configuration and different histories are
\* indistinguishable after align_with_schedule with the same start_temp,
\* target_temp and elapsed: the engine reached by any history is left with the
\* current, target and start temperature and the in_transition flag that a
\* freshly built engine is left with.
C21_AlignForgetsHistory ==
    \A p \in AlignPairs, k \in 0..MaxElapsedSteps :
        Observed(align_with_schedule(eng, cfg, p[1], p[2], k * Step, now).eng)
        = Observed(align_with_schedule(new_with_temp(cfg.temperature_day, T0), cfg,
                                       p[1], p[2], k * Step, now).eng)

\* an engine in the middle of a transition, which differs from a fresh engine
\* in all four observed fields and is realigned onto another transition
C21_Witness ==
    /\ InFlight(eng)
    /\ \E p \in AlignPairs, k \in 1..MaxElapsedSteps :
        LET r == align_with_schedule(eng, cfg, p[1], p[2], k * Step, now).eng
        IN  /\ p[1] # eng.transition_start_temp
            /\ p[2] # eng.target_temperature
            /\ InFlight(r)
            /\ Observed(r) # Observed(eng)


\* C22: after align_with_schedule(start, target, e) with e < duration, a call
\* update(target) after a further delta leaves the current temperature and the
\* in_transition flag that align_with_schedule(start, target, e + delta) leaves,
\* for every start, target, e and delta.
C22_UpdateContinuesAlign ==
    \A p \in AlignPairs \cup {<<t, t>> : t \in {cfg.temperature_day}},
       k \in 0..MaxElapsedSteps, j \in 0..MaxElapsedSteps :
        k * Step < DurationSecs(cfg) =>
            LET a == align_with_schedule(eng, cfg, p[1], p[2], k * Step, now).eng
                u == update(a, cfg, p[2], now + j * Step).eng
                b == align_with_schedule(eng, cfg, p[1], p[2], (k + j) * Step,
                                         now + j * Step).eng
            IN  /\ u.current_temperature = b.current_temperature
                /\ u.in_transition = b.in_transition


AllEasings == AnalyticEasings \cup BezierEasings \cup FallbackEasings

\* C23: progress() is 1.0 when the engine is idle or the duration is zero, and
\* otherwise the time since the phase start divided by the duration, clamped
\* to [0, 1]; it is the same whatever the easing identifier.
C23_ProgressIsLinearFraction ==
    LET duration == DurationSecs(cfg)
        progress == Transition_progress(eng, cfg, now)
    IN  /\ (~eng.in_transition \/ duration = 0) => progress = QInt(1)
        /\ (eng.in_transition /\ duration > 0) =>
               progress = QClamp01(QNorm(now - eng.phase_start_time, duration))
        /\ \A e \in AllEasings :
               Transition_progress(eng, [cfg EXCEPT !.easing = e], now) = progress

\* a transition a quarter of the way under a curve that is not linear: the
\* temperature has moved by the eased amount, progress reports the quarter
C23_Witness ==
    /\ eng.in_transition
    /\ cfg.easing = Name("ease_in")
    /\ Transition_progress(eng, cfg, now) = <<1, 4>>
    /\ apply_easing(<<1, 4>>, cfg.easing) # Exact(<<1, 4>>)
    /\ eng.current_temperature # eng.transition_start_temp


-----------------------------------------------------------------------------
(* Claims about the persisted state (state.rs), under SpecDaemon *)

\* timestamp and elapsed values around the clock and at both ends of u64
U64Samples == {0, Step, now - Step, now, now + Step, U64Top(Step), U64Top(1)}

\* C24: age_seconds is now - (transition_start_timestamp + elapsed_seconds)
\* when that is not negative and 0 otherwise, for all u64 timestamp and
\* elapsed values: it never goes negative, wraps or faults.
C24_AgeIsSaturatingDifference ==
    \A ts \in U64Samples, el \in U64Samples :
        LET st == State(cfg.temperature_day, ts, el, cfg.temperature_night)
            fits == ts >= 0 /\ el >= 0
        IN  /\ ~age_seconds_overflows(st)
            /\ age_seconds(st, now) =
                   IF fits /\ ts + el <= now THEN now - (ts + el) ELSE 0


-----------------------------------------------------------------------------
(* Specification of the state file: a configured path, a home directory and
   a file system, with State::save and State::load called in any order *)

Home == Path(<<"/", "h">>)
\* "/t/s", "~/s", "~", "~u/s" and the empty path
StorePaths ==
    {Path(<<"/", "t", "/", "s">>), Path(<<"~", "/", "s">>), Path(<<"~">>),
     Path(<<"~", "u", "/", "s">>), Path(<<>>)}
\* the files those paths name: "/t/s", "/h/s" and "/s"
StoreFiles ==
    {Path(<<"/", "t", "/", "s">>), Path(<<"/", "h", "/", "s">>), Path(<<"/", "s">>)}

\* the record of the test state_save_and_load on the model's clock, a record
\* of a transition in flight, and records with a u64 field at the top
StoreRecords ==
    {State(6500, T0 - 2 * Step, 2 * Step, 1500),
     State(1500, T0, 0, 6500),
     State(6500, U64Top(1), 0, 1500),
     State(6500, T0, U64Top(1), 1500)}

\* what a file holds before the program writes it: nothing, text that is no
\* TOML, a saved record, a document with a field missing, a document whose
\* temperature is no u16, and the empty file
StoreContents ==
    {None, Some(Garbage), Some(Document({})),
     Some(Document({<<k, (State(6500, T0, Step, 1500))[k]>> : k \in StateKeys})),
     Some(Document({<<"transition_start_temp", 6500>>, <<"target_temp", 1500>>})),
     Some(Document({<<"transition_start_temp", 6500>>, <<"target_temp", U16Mod>>,
                    <<"transition_start_timestamp", T0>>, <<"elapsed_seconds", 0>>}))}

InitStore ==
    /\ cfg = DefaultConfig
    /\ now = T0
    /\ eng = new_with_temp(cfg.temperature_day, T0)
    /\ panicked = FALSE
    /\ \E path \in StorePaths, home \in {None, Some(Home)}, c \in StoreContents,
          writable \in BOOLEAN :
           daemon = [pc |-> "store", path |-> path, home |-> home,
                     writable |-> writable, files |-> [f \in StoreFiles |-> c],
                     saved |-> None, loaded |-> None, last |-> "none"]

\* state.save(path): a panic ends the process
Save(st) ==
    /\ ~panicked
    /\ \E o \in State_save(st, daemon.path, daemon.home, daemon.files, daemon.writable) :
           IF o.fault THEN panicked' = TRUE /\ daemon' = [daemon EXCEPT !.last = "save"]
           ELSE /\ daemon' = [daemon EXCEPT !.files = o.files,
                                            !.saved = IF o.result = "Ok" THEN Some(st) ELSE @,
                                            !.loaded = None,
                                            !.last = "save"]
                /\ UNCHANGED panicked
    /\ UNCHANGED <<cfg, now, eng>>

\* State::load(path)
Load ==
    /\ ~panicked
    /\ LET r == State_load(daemon.path, daemon.home, daemon.files)
       IN  IF r.fault THEN panicked' = TRUE /\ daemon' = [daemon EXCEPT !.last = "load"]
           ELSE /\ daemon' = [daemon EXCEPT !.loaded = r.value, !.last = "load"]
                /\ UNCHANGED panicked
    /\ UNCHANGED <<cfg, now, eng>>

NextStore ==
    \/ \E st \in StoreRecords : Save(st)
    \/ Load

SpecStore == InitStore /\ [][NextStore]_vars

\* C25: for every path string and file content State::load returns a record
\* or none: a missing or unreadable file, unparsable content and an
\* unresolvable path all give none, never an error or a fault.
C25_LoadGivesRecordOrNone ==
    LET r == State_load(daemon.path, daemon.home, daemon.files)
        x == expand_path(daemon.path, daemon.home)
    IN  /\ ~r.fault
        /\ (daemon.last = "load" => ~panicked)
        /\ r.value # None =>
               /\ DOMAIN r.value[1] = StateKeys
               /\ r.value[1].transition_start_temp \in 0..(U16Mod - 1)
               /\ r.value[1].target_temp \in 0..(U16Mod - 1)
        /\ (StartsWithTilde(daemon.path) /\ daemon.home = None) => r.value = None
        /\ (~x.fault /\ x.path # None) =>
               LET content == fs_read_to_string(daemon.files, x.path[1])
               IN  (content = None \/ toml_from_str(content[1]) = None) => r.value = None

\* C26: a successful save of a record followed by a load of the same path
\* returns a record with the four fields equal to those saved, for every
\* record.
C26_SaveLoadRoundTrip ==
    /\ (daemon.last = "load" /\ daemon.saved # None /\ ~panicked) =>
           daemon.loaded = daemon.saved
    /\ \A st \in StoreRecords :
           \A o \in State_save(st, daemon.path, daemon.home, daemon.files, daemon.writable) :
               (~o.fault /\ o.result = "Ok") =>
                   State_load(daemon.path, daemon.home, o.files).value = Some(st)


-----------------------------------------------------------------------------
(* Claims about the easing library, under Spec *)

\* progress values on the quarter grid of the clock
QuarterGrid == {QNorm(k, 4) : k \in 0..4}

\* C27: apply_easing with an identifier that is neither a built-in name nor a
\* well-formed cubic_bezier descriptor (wrong number of arguments, a number
\* that does not parse, a missing parenthesis, an unknown name) returns the
\* progress unchanged, in the engine's easing library and in the
\* interpolation of the persisted state alike; the engine then moves as under
\* the linear curve.
C27_UnknownEasingIsLinear ==
    /\ \A e \in FallbackEasings, t \in QuarterGrid :
           /\ apply_easing(t, e) = Exact(t)
           /\ state_apply_easing(t, e) = Exact(t)
    /\ cfg.easing \in FallbackEasings =>
           \A p \in AlignPairs, k \in 0..MaxElapsedSteps :
               /\ align_with_schedule(eng, cfg, p[1], p[2], k * Step, now)
                  = align_with_schedule(eng, [cfg EXCEPT !.easing = Name("linear")],
                                        p[1], p[2], k * Step, now)
               /\ calculate_temperature_from_state(
                      State(p[1], 0, k * Step, p[2]), DurationSecs(cfg), cfg.easing)
                  = calculate_temperature_from_state(
                      State(p[1], 0, k * Step, p[2]), DurationSecs(cfg), Name("linear"))

\* an engine configured with an unknown curve name, a quarter of the way from
\* 6500 to 1500: the temperature is the linear 5250
C27_Witness ==
    /\ cfg.easing \in FallbackEasings
    /\ InFlight(eng)
    /\ Transition_progress(eng, cfg, now) = <<1, 4>>
    /\ eng.transition_start_temp = 6500 /\ eng.target_temperature = 1500
    /\ eng.current_temperature = 5250


\* whether the f64 y = <<n, d, r>> is a number within 1e-2 of the integer v
WithinHundredth(y, v) ==
    /\ y[2] # 0
    /\ QLe(QSub(<<y[1], y[2]>>, QInt(v)), <<1, 100>>)
    /\ QLe(QSub(QInt(v), <<y[1], y[2]>>), <<1, 100>>)

\* C28: every built-in curve (linear, ease_in, ease_out, ease_in_out, sine,
\* smooth, smoother) maps progress 0 to 0 and progress 1 to 1; for
\* cubic_bezier descriptors the same holds within 1e-2.
C28_CurvesFixEndpoints ==
    /\ \A e \in AnalyticEasings \cup ({cfg.easing} \cap AnalyticEasings) :
           /\ apply_easing(QInt(0), e) = Exact(QInt(0))
           /\ apply_easing(QInt(1), e) = Exact(QInt(1))
    /\ \A e \in BezierEasings \cup {BezierNaN} :
           /\ WithinHundredth(apply_easing(QInt(0), e), 0)
           /\ WithinHundredth(apply_easing(QInt(1), e), 1)


-----------------------------------------------------------------------------
(* Specification of the construction of the phase resolver: a configuration
   as it comes from the file, and Schedule::new called on it *)

\* "07:00" and the "25:00" of the test fixed_schedule_rejects_invalid_time
NewWakeups == {HM(7, 0), HM(25, 0)}
NewBedtimes == {HM(22, 0), HM(22, 60)}
\* degrees inside and just outside the valid ranges
Latitudes == {0, 48, 90, 91, -91}
Longitudes == {0, 9, -180, 181}

NewConfigs ==
    {[DefaultConfig EXCEPT !.mode = x[1], !.schedule_wakeup = x[2],
                           !.schedule_bedtime = x[3], !.location_latitude = x[4],
                           !.location_longitude = x[5]] :
        x \in {"Auto", "Fixed"} \X NewWakeups \X NewBedtimes \X Latitudes \X Longitudes}

InitNew ==
    /\ cfg \in NewConfigs
    /\ now = T0
    /\ eng = new_with_temp(cfg.temperature_day, T0)
    /\ panicked = FALSE
    /\ daemon = [pc |-> "new", error |-> ""]

\* main.rs 223-224: the resolver is built, or run_daemon returns the error
Construct ==
    /\ daemon.pc = "new"
    /\ LET r == Schedule_new(cfg)
       IN  daemon' = [pc |-> IF r.ok THEN "built" ELSE "failed", error |-> r.error]
    /\ UNCHANGED <<cfg, now, eng, panicked>>

NextNew == Construct

SpecNew == InitNew /\ [][NextNew]_vars

TimesParse(c) ==
    /\ c.schedule_wakeup[1] \in 0..23 /\ c.schedule_wakeup[2] \in 0..59
    /\ c.schedule_bedtime[1] \in 0..23 /\ c.schedule_bedtime[2] \in 0..59
ValidPosition(c) ==
    /\ c.location_latitude \in -90..90
    /\ c.location_longitude \in -180..180

\* C29: Schedule::new fails with a validation error when the wakeup or the
\* bedtime string is not parseable as HH:MM, or when the mode is Auto and the
\* coordinates are no valid geographic position; in Fixed mode with parseable
\* times the construction succeeds whatever the coordinates are.
C29_ConstructionValidates ==
    daemon.pc # "new" =>
        /\ ~TimesParse(cfg) => daemon.pc = "failed"
        /\ (cfg.mode = "Auto" /\ ~ValidPosition(cfg)) => daemon.pc = "failed"
        /\ (cfg.mode = "Fixed" /\ TimesParse(cfg)) => daemon.pc = "built"


-----------------------------------------------------------------------------
(* Claims about the daemon loop, continued (under SpecDaemon) *)

\* a tick of the daemon that was not paused: lines 301-359 ran to the sleep
NonPausedTick == daemon.pc = "decide" /\ daemon'.pc = "sleep"

\* C30: on every non-paused tick the daemon calls exactly one engine
\* operation: align_with_schedule with the window's start_temp, target_temp and
\* elapsed = now - window.start when transition_window_at(now) returns a
\* window, and otherwise update with the day temperature if the phase is Day
\* or TransitioningToDay and the night temperature if it is Night or
\* TransitioningToNight.
C30_TickCallsOneOperation ==
    [][NonPausedTick =>
        LET window == transition_window_at(cfg, now)
            phase == current_phase_at(cfg, now)
        IN  IF window # None THEN
                eng' = align_with_schedule(eng, cfg, window[1].start_temp,
                                           window[1].target_temp,
                                           now - window[1].start, now).eng
            ELSE IF phase \in {"Day", "TransitioningToDay"} THEN
                eng' = update(eng, cfg, cfg.temperature_day, now).eng
            ELSE
                eng' = update(eng, cfg, cfg.temperature_night, now).eng]_vars

\* the daemon has ticked a quarter of an hour into the evening window and the
\* engine sits on the window's schedule, between the day and the night
\* temperature
C30_Witness ==
    LET window == transition_window_at(cfg, now)
    IN  /\ daemon.pc = "sleep"
        /\ window # None
        /\ now - window[1].start = Step
        /\ eng = align_with_schedule(eng, cfg, window[1].start_temp,
                                      window[1].target_temp, Step, now).eng
        /\ InFlight(eng)
        /\ eng.phase_start_time = window[1].start


\* C31: with optimize_updates the daemon issues the apply-temperature action on
\* a tick only if the engine's current temperature differs from the last
\* temperature applied successfully (or none was applied yet); without it the
\* action is issued on every non-paused, non-dry-run tick.  A failed apply
\* leaves the remembered value alone, so the temperature is tried again.
C31_ApplyOnlyOnChange ==
    [][NonPausedTick =>
        LET temp == eng'.current_temperature
            last == daemon.last_set_temperature
            act == daemon'.apply
            differs == last = None \/ last[1] # temp
        IN  /\ act # None <=> (~cfg.dry_run /\ (~cfg.optimize_updates \/ differs))
            /\ act # None => act[1].temp = temp
            /\ daemon'.last_set_temperature =
                   IF act # None /\ act[1].ok THEN Some(temp) ELSE last
            /\ (act # None /\ ~act[1].ok /\ differs) =>
                   IssuesApply(cfg, daemon'.last_set_temperature, temp)]_vars

\* a tick has issued the action for a temperature other than the one applied
\* last, the action has failed, and the daemon still remembers the old one
C31_Witness ==
    /\ daemon.pc = "sleep"
    /\ cfg.optimize_updates
    /\ daemon.apply # None
    /\ ~daemon.apply[1].ok
    /\ daemon.apply[1].temp = eng.current_temperature
    /\ daemon.last_set_temperature # None
    /\ daemon.last_set_temperature[1] # eng.current_temperature


\* C32: in one daemon run the persisted record is loaded at most once, before
\* the first tick, and saved at most once, only after the shutdown flag has
\* been observed; no tick in between reads or writes the record.
C32_RecordLoadedAndSavedOnce ==
    [][/\ daemon'.loads <= 1 /\ daemon'.saves <= 1
       /\ daemon'.loads # daemon.loads =>
              daemon.pc = "start" /\ daemon.apply = None /\ daemon.status = None
       /\ daemon'.saves # daemon.saves => daemon.shutdown /\ daemon'.pc = "exited"
       /\ daemon'.state_file # daemon.state_file => daemon'.saves = daemon.saves + 1
       /\ NonPausedTick =>
              /\ daemon'.loads = daemon.loads /\ daemon'.saves = daemon.saves
              /\ daemon'.state_file = daemon.state_file]_vars

\* a run that loaded a record, ticked and has saved its state on shutdown
C32_Witness ==
    /\ daemon.pc = "exited"
    /\ daemon.resumed
    /\ daemon.apply # None
    /\ daemon.loads = 1 /\ daemon.saves = 1
    /\ daemon.state_file = Some(ShutdownState(eng, now))


-----------------------------------------------------------------------------
\* The daemon under a fair scheduler: the daemon's thread is never starved,
\* so a step of its loop that stays possible is eventually taken.  Fairness
\* is asked only of the steps that poll the control file and the flags;
\* signals, commands, ticks and the passing of time are not forced.
DaemonRuns ==
    \/ ReadControl
    \/ TruncateControl
    \/ DaemonShutdown
    \/ DaemonPaused
    \/ SleepEnd

SpecDaemonLive == SpecDaemon /\ WF_vars(DaemonRuns)

\* the step that leaves the loop without a fault
LoopExit ==
    daemon.pc # "exited" /\ daemon'.pc = "exited" /\ ~panicked'

\* once the flag is set the loop terminates
ShutdownTerminates == daemon.shutdown ~> daemon.pc = "exited"

\* no further nap is started once the flag is set
NoNapAfterShutdown == [][daemon.shutdown => now' = now]_vars

\* the record written on the way out
SavesOnExit ==
    [][LoopExit =>
        daemon'.state_file =
            IF cfg.dry_run THEN daemon.state_file
            ELSE Some(State(eng.transition_start_temp,
                            eng.transition_start_timestamp,
                            Max(0, now - eng.transition_start_timestamp),
                            eng.target_temperature))]_vars

-----------------------------------------------------------------------------
\* the step that empties the control file
Truncation ==
    daemon.pc = "truncate" /\ daemon'.pc = "decide"

\* C34: no command written by the CLI is lost, under every interleaving of
\* the CLI's write with the daemon's read-then-truncate: the truncation
\* erases only what the read before it has seen.
C34_NoCommandLost ==
    [][Truncation => daemon.control = daemon.content]_vars


-----------------------------------------------------------------------------
\* a non-paused tick taken at an instant with no window, in Day or Night
TickOutsideWindow ==
    /\ NonPausedTick
    /\ transition_window_at(cfg, now) = None
    /\ current_phase_at(cfg, now) \in {"Day", "Night"}

-----------------------------------------------------------------------------
\* w is a window from temperature s to temperature g that began at most one
\* duration before now
WindowInProgress(w, s, g) ==
    /\ w # None
    /\ w[1].start_temp = s /\ w[1].target_temp = g
    /\ 0 <= now - w[1].start
    /\ now - w[1].start < DurationSecs(cfg)

-----------------------------------------------------------------------------
\* C37: when the engine was last aligned inside a window (elapsed below the
\* duration), the first tick after the window ended, a call update(target) of
\* the window's target once at least the duration has passed since the
\* window's start, leaves the current temperature at the target and the
\* engine idle, however long the loop slept in between.
C37_FirstTickAfterWindowCompletes ==
    \A p \in AlignPairs, k \in 0..MaxElapsedSteps, j \in 1..MaxElapsedSteps :
        (k * Step < DurationSecs(cfg) /\ (k + j) * Step >= DurationSecs(cfg)) =>
            \E a \in {align_with_schedule(eng, cfg, p[1], p[2], k * Step, now)} :
                (~(a.overflow /\ cfg.overflow_checks)) =>
                    \E u \in {update(a.eng, cfg, p[2], now + j * Step).eng} :
                        /\ u.current_temperature = p[2]
                        /\ u.target_temperature = p[2]
                        /\ ~u.in_transition

\* an engine aligned part-way into a window (its phase began before the run
\* did), still short of its target when the window has ended, which the next
\* update brings to the target
C37_Witness ==
    /\ eng.in_transition
    /\ eng.phase_start_time < T0
    /\ now - eng.phase_start_time >= DurationSecs(cfg)
    /\ eng.current_temperature # eng.target_temperature
    /\ ~update(eng, cfg, eng.target_temperature, now).eng.in_transition
    /\ update(eng, cfg, eng.target_temperature, now).eng.current_temperature
         = eng.target_temperature


-----------------------------------------------------------------------------
\* the instants of the scheduler specification's clock
SchedGrid == {k * Step : k \in 0..((MaxDate + 1) * (DaySecs \div Step) - 1)}

\* C38: in a Day or Night phase the timestamp returned by
\* next_transition_start is the earliest instant after now at which
\* current_phase_at is a Transitioning phase, so the daemon's sleep of
\* min(next - now, 3600 s) never extends past the start of a transition
\* window.
C38_NextStartIsEarliestTransition ==
    (cfg.duration_minutes > 0 /\ current_phase_at(cfg, now) \in {"Day", "Night"}) =>
        LET n == next_transition_start(cfg, now) IN
        /\ n # None
        /\ n[1] > now
        /\ \A u \in SchedGrid :
              (now < u /\ u < n[1]) => current_phase_at(cfg, u) \notin Transitioning
        /\ n[1] \in SchedGrid => current_phase_at(cfg, n[1]) \in Transitioning
        /\ \A u \in SchedGrid :
              (now < u /\ u < now + SleepDuration(cfg, now)) =>
                  transition_window_at(cfg, u) = None


-----------------------------------------------------------------------------
MonotoneEasings ==
    {Name("linear"), Name("ease_in"), Name("ease_out"), Name("ease_in_out")}

\* the distance between two temperatures
Distance(a, b) == IF a >= b THEN a - b ELSE b - a

\* the current temperature left by align_with_schedule(p[1], p[2], k steps)
\* on the engine under configuration c
AlignedTemperature(c, p, k) ==
    align_with_schedule(eng, c, p[1], p[2], k * Step, now).eng.current_temperature

\* C39: for fixed start, target and positive duration and a monotone easing
\* curve (linear, ease_in, ease_out, ease_in_out), align_with_schedule calls
\* with non-decreasing elapsed values give current temperatures whose distance
\* to the target never increases, and the target is reached exactly when
\* elapsed >= duration.
C39_AlignApproachesTarget ==
    cfg.duration_minutes > 0 =>
        \A e \in MonotoneEasings, p \in {q \in Temps \X Temps : q[1] # q[2]},
           k1 \in 0..MaxElapsedSteps, k2 \in 0..MaxElapsedSteps :
            LET c == [cfg EXCEPT !.easing = e] IN
            /\ k1 <= k2 =>
                  Distance(AlignedTemperature(c, p, k2), p[2])
                      <= Distance(AlignedTemperature(c, p, k1), p[2])
            /\ AlignedTemperature(c, p, k1) = p[2] <=> k1 * Step >= DurationSecs(cfg)


-----------------------------------------------------------------------------
\* C40: while the paused flag is set and shutdown is not, no step of the
\* daemon is a tick: neither update nor align_with_schedule is called, no
\* apply-temperature action is issued and no status file is written, so the
\* engine state and the remembered last-applied temperature stay as they are
\* until a 'resume' command is read.
C40_PausedChangesNothing ==
    [][(daemon.paused /\ ~daemon.shutdown) =>
        /\ ~NonPausedTick
        /\ eng' = eng
        /\ daemon'.apply = daemon.apply
        /\ daemon'.last_set_temperature = daemon.last_set_temperature
        /\ daemon'.status = daemon.status
        /\ daemon'.tick_count = daemon.tick_count
        /\ (~daemon'.paused => daemon.pc = "loop" /\ daemon.control = Some(<<"resume">>))]_vars

\* a paused iteration has ended after ticks that applied a temperature and
\* wrote the status file, and the next tick is overdue
C40_Witness ==
    /\ daemon.pc = "loop" /\ daemon.paused /\ ~daemon.shutdown
    /\ daemon.last_set_temperature # None
    /\ daemon.status # None
    /\ eng.in_transition
    /\ now > daemon.deadline

====
